---- MODULE Spec2Model ----
(***************************************************************************)
(* A model of the chat-session engine of OxidizeBot (bot/src/irc.rs):     *)
(* the protocol event loop of one session (IrcLoop::run), the message      *)
(* pipeline (Handler::process_message, process_command), the handling of   *)
(* inbound protocol lines (Handler::handle) and the spawned handler tasks. *)
(***************************************************************************)
EXTENDS Integers, Sequences, FiniteSets, Bags, TLC

(***************************************************************************)
(* Bounds of the model.                                                    *)
(***************************************************************************)
\* spawned handler tasks that may be pending at the same time
MaxTasks == 1
\* command-table snapshots delivered on the stream during one session
MaxUpdates == 2
\* iterations the alias expansion loop is followed before the model gives up
ExpandFuel == 4
\* consecutive failed sessions the supervisor is followed through
MaxFailures == 8
\* provider builds that give nothing which are counted between two updates
MaxIdleBuilds == 2
\* entries of a notice that lists the members of a room
MaxNames == 3
\* characters of an item given to partition_response
MaxItemLen == 3
\* items given to partition_response
MaxItems == 2
\* the largest width given to partition_response
MaxWidth == 5
\* results given to respond_lines
MaxResults == 3
MaxDeliveries == 2
MaxHooks == 2
\* the calls of Themes::edit and Themes::edit_duration made on one theme
MaxCalls == 3

(***************************************************************************)
(* Values of the environment.                                              *)
(***************************************************************************)
None == "None"
\* the absent login (Option<&str> of a name)
NoLogin == <<>>

\* logins are character sequences, as parse_room_members produces them
Zoe == <<"z", "o", "e">>
Amy == <<"a", "m", "y">>
Bob == <<"b", "o", "b">>

\* streamer.user.login and streamer.user.id
StreamerLogin == Zoe
StreamerId == <<"4", "2">>

\* stream_info.is_subscriber(login)
Subscribers == {Bob}

\* The grants of the auth component: the roles each scope is granted to.
Grants ==
    {<<"Poll", "Subscriber">>, <<"Poll", "Streamer">>,
     <<"ThemeEdit", "Streamer">>, <<"ThemeEdit", "Moderator">>,
     <<"ChatBypassUrlWhitelist", "Moderator">>, <<"ChatBypassUrlWhitelist", "Streamer">>,
     <<"ChatBypassUrlWhitelist", "Vip">>}

\* Auth::test_any: some role of the caller is granted the scope.
Auth_test_any(scope, roles) == \E r \in roles : <<scope, r>> \in Grants

(***************************************************************************)
(* Principals and roles.                                                   *)
(***************************************************************************)
\* UserInner as built by Handler::handle for a chat line; id: the line carries
\* a message id tag
RealPrincipal(login, id) ==
    [principal |-> "User", login |-> login, streamer_login |-> StreamerId, id |-> id]

\* UserInner as built by Handler::raw for an injected command
InjectedPrincipal ==
    [principal |-> "Injected", login |-> NoLogin, streamer_login |-> StreamerLogin,
     id |-> FALSE]

RealUser_is_streamer(u) == u.login = u.streamer_login

RealUser_is_moderator(u, moderators) == u.login \in moderators

RealUser_is_subscriber(u) == RealUser_is_streamer(u) \/ u.login \in Subscribers

RealUser_is_vip(u, vips) == u.login \in vips

RealUser_roles(u, moderators, vips) ==
    (IF RealUser_is_streamer(u) THEN {"Streamer"} ELSE {})
        \cup (IF RealUser_is_moderator(u, moderators) THEN {"Moderator"} ELSE {})
        \cup (IF RealUser_is_subscriber(u) THEN {"Subscriber"} ELSE {})
        \cup (IF RealUser_is_vip(u, vips) THEN {"Vip"} ELSE {})
        \cup {"Everyone"}

RealUser_has_scope(u, scope, moderators, vips) ==
    Auth_test_any(scope, RealUser_roles(u, moderators, vips))

User_is_streamer(u) ==
    IF u.principal = "User" THEN RealUser_is_streamer(u) ELSE TRUE

User_is_moderator(u, moderators) ==
    IF u.principal = "User" THEN RealUser_is_moderator(u, moderators) ELSE TRUE

User_roles(u, moderators, vips) ==
    IF u.principal = "User"
    THEN RealUser_roles(u, moderators, vips)
    ELSE {"Streamer", "Moderator", "Subscriber", "Vip"}

\* a faulty variant of User_has_scope: moderators pass every scope test
User_has_scope_moderator_passes(u, scope, moderators, vips) ==
    IF u.principal = "User"
    THEN RealUser_has_scope(u, scope, moderators, vips)
             \/ RealUser_is_moderator(u, moderators)
    ELSE FALSE

User_has_scope(u, scope, moderators, vips) ==
    IF u.principal = "User"
    THEN RealUser_has_scope(u, scope, moderators, vips)
    ELSE FALSE

User_display_name(u) == IF u.principal = "User" THEN u.login ELSE NoLogin

\* User::respond: one chat line, addressed to the display name when there is one
User_respond(u, m) == [to |-> User_display_name(u), text |-> m, arg |-> <<>>]

\* Sender::privmsg of a text that is not a response to a user
Privmsg(m) == [to |-> NoLogin, text |-> m, arg |-> <<>>]

(***************************************************************************)
(* Words of a message. A message is the sequence of its whitespace         *)
(* delimited words (utils::Words).                                         *)
(***************************************************************************)
\* str::to_lowercase on the words of the model
Lower(w) ==
    CASE w = "!A" -> "!a" [] w = "!LURK" -> "!lurk"
      [] w \in {"YES", "Yes"} -> "yes"
      [] w = "AD" -> "ad"
      [] OTHER -> w

\* str::strip_prefix('!')
StripBang(w) ==
    CASE w = "!ping" -> "ping"
      [] w = "!poll" -> "poll"
      [] w = "!theme" -> "theme"
      [] w = "!song" -> "song"
      [] w = "!coin" -> "coin"
      [] w = "!a" -> "a"
      [] w = "!A" -> "A"
      [] w = "!b" -> "b"
      [] w = "!loop" -> "loop"
      [] w = "!lurk" -> "lurk"
      [] w = "!LURK" -> "LURK"
      [] OTHER -> None

(***************************************************************************)
(* Aliases (db/aliases.rs). An alias table maps a key <<channel, name>> to *)
(* a template: the words of its body, whether it ends with {{rest}}, and   *)
(* whether rendering it succeeds.                                          *)
(***************************************************************************)
Template(body, rest) == [body |-> body, rest |-> rest, ok |-> TRUE]

\* Option::None of a lookup that yields a pair
NoMatch == <<>>

\* Alias::matches: the first word, lowercased, is the alias name; the
\* template is rendered against the rest of the message
Alias_matches(key, template, message) ==
    IF message # <<>> /\ Lower(Head(message)) = key[2] /\ template.ok
    THEN <<key[2], template.body \o (IF template.rest THEN Tail(message) ELSE <<>>)>>
    ELSE NoMatch

\* Aliases::lookup / resolve: the alias of the channel that matches, if any
Aliases_resolve(aliases, channel, message) ==
    LET hits == {key \in DOMAIN aliases :
                    key[1] = channel /\ Alias_matches(key, aliases[key], message) # NoMatch}
    IN IF hits = {} THEN NoMatch
       ELSE LET key == CHOOSE k \in hits : TRUE
            IN Alias_matches(key, aliases[key], message)

\* a faulty variant of HashSet_insert: every key counts as new
HashSet_insert_always_new(seen, key) == TRUE

\* HashSet::insert: whether the key was not in the set before
HashSet_insert(seen, key) == key \notin seen

\* The alias expansion loop of Handler::process_message. The outcome is
\* "done" (no alias matches any more), "cycle" (a key was matched twice) or
\* "unbounded" (the loop was still running when the fuel ran out).
RECURSIVE expand_aliases(_, _, _, _, _)
expand_aliases(aliases, message, seen, path, fuel) ==
    LET r == Aliases_resolve(aliases, StreamerLogin, message)
    IN IF r = NoMatch
       THEN [outcome |-> "done", path |-> path, message |-> message]
       ELSE IF fuel = 0
       THEN [outcome |-> "unbounded", path |-> path, message |-> message]
       ELSE LET path2 == Append(path, r[1])
            IN IF ~HashSet_insert(seen, r[1])
               THEN [outcome |-> "cycle", path |-> path2, message |-> message]
               ELSE expand_aliases(aliases, r[2], seen \cup {r[1]}, path2, fuel - 1)

(***************************************************************************)
(* The command table (db::Commands). A snapshot is the Option delivered on *)
(* the stream (present or not) with the commands by name, each with        *)
(* whether its template uses the count variable; ver numbers the           *)
(* snapshots in the order of their delivery.                               *)
(***************************************************************************)
\* Commands::resolve: the command named by the first word, lowercased
Commands_resolve(commands, first) ==
    IF first # None /\ Lower(first) \in DOMAIN commands.table
    THEN Lower(first)
    ELSE None

(***************************************************************************)
(* The handler registry (module::Handlers), the scripts and the currency   *)
(* handler.                                                                *)
(***************************************************************************)
HandlerNames == {"poll", "theme"}

\* Handlers::get
Handlers_get(name) == IF name \in HandlerNames THEN name ELSE None

\* command::Handler::scope of each handler: Poll overrides it; the theme
\* handler and the currency handler define none and keep the default of the
\* trait
Handler_scope(handler) ==
    CASE handler = "poll" -> "Poll"
      [] OTHER -> None

ScriptNames == {"song"}

NoCommandEffects ==
    [sent |-> <<>>, resolved |-> None, spawned |-> None, called |-> None, ping |-> FALSE]

\* a faulty variant of ping_command: nothing is sent on the global bus
ping_command_no_broadcast(user) ==
    [NoCommandEffects EXCEPT !.sent = <<User_respond(user, "What do you want?")>>]

\* the "ping" arm of process_command: the response, and bus::Global::Ping
\* sent on the global bus
ping_command(user) ==
    [NoCommandEffects EXCEPT !.sent = <<User_respond(user, "What do you want?")>>,
                             !.ping = TRUE]

\* a faulty variant of select_handler: the registry is consulted first
select_handler_registry_first(command, currency_command) ==
    IF Handlers_get(command) # None THEN Handlers_get(command)
    ELSE IF currency_command # None /\ command = currency_command THEN "currency"
    ELSE None

\* the match of process_command on (other, currency_command): the currency
\* handler when the name is the currency's, else the registered handler
select_handler(command, currency_command) ==
    IF currency_command # None /\ command = currency_command
    THEN "currency"
    ELSE Handlers_get(command)

\* process_command: what the dispatch of `!command` sends, spawns and calls
process_command(command, user, currency_command, scripts, moderators, vips) ==
    IF command = "ping"
    THEN ping_command(user)
    ELSE LET handler == select_handler(command, currency_command)
             scope == Handler_scope(handler)
         IN IF handler # None
            THEN IF scope # None /\ ~User_has_scope(user, scope, moderators, vips)
                 THEN IF User_is_moderator(user, moderators)
                      THEN [NoCommandEffects EXCEPT !.resolved = handler, !.sent =
                              <<User_respond(user, "You are not allowed to run that command")>>]
                      ELSE [NoCommandEffects EXCEPT !.resolved = handler, !.sent =
                              <<User_respond(user, "Do you think this is a democracy? LUL")>>]
                 ELSE [NoCommandEffects EXCEPT !.resolved = handler, !.spawned = handler]
            ELSE IF command \in scripts
            THEN [NoCommandEffects EXCEPT !.resolved = command, !.called = command]
            ELSE NoCommandEffects

(***************************************************************************)
(* The moderation filter.                                                  *)
(***************************************************************************)
\* the denylist tester (db::Words): the entry a word matches, with whether
\* it carries an explanation
Tester_test(word) ==
    CASE word = "darn" -> "why"
      [] word = "heck" -> "nowhy"
      [] OTHER -> None

\* Handler::test_bad_words: the first word of the message that matches
RECURSIVE test_bad_words(_)
test_bad_words(message) ==
    IF message = <<>> THEN None
    ELSE IF Tester_test(Head(message)) # None THEN Tester_test(Head(message))
    ELSE test_bad_words(Tail(message))

\* Url::host_str of a word that is a URL
Url_host(word) ==
    CASE word = "http://bad.tv" -> "bad.tv"
      [] word = "http://ok.tv" -> "ok.tv"
      [] OTHER -> None

\* Handler::has_bad_link
has_bad_link(message, whitelisted_hosts) ==
    \E i \in 1..Len(message) :
        Url_host(message[i]) # None /\ Url_host(message[i]) \notin whitelisted_hosts

\* Handler::should_be_deleted: whether to delete, and the explanation sent
should_be_deleted(user, message, moderators, vips, bad_words_enabled, url_whitelist_enabled, whitelisted_hosts) ==
    IF User_is_moderator(user, moderators)
    THEN [delete |-> FALSE, sent |-> <<>>]
    ELSE IF bad_words_enabled /\ test_bad_words(message) # None
    THEN [delete |-> TRUE,
          sent |-> IF test_bad_words(message) = "why"
                   THEN <<Privmsg("bad word explanation")>>
                   ELSE <<>>]
    ELSE IF ~User_has_scope(user, "ChatBypassUrlWhitelist", moderators, vips)
              /\ url_whitelist_enabled
              /\ has_bad_link(message, whitelisted_hosts)
    THEN [delete |-> TRUE, sent |-> <<>>]
    ELSE [delete |-> FALSE, sent |-> <<>>]

\* a faulty variant of delete_message: a delete request whatever the tags
delete_message_always(user) == TRUE

\* Handler::delete_message: a delete request is issued when the line
\* carries a message id
delete_message(user) == user.id

(***************************************************************************)
(* Handler::process_message, up to and including the dispatch of the       *)
(* explicit command. `fault` is the step of the table-driven command that  *)
(* fails, if any.                                                          *)
(***************************************************************************)
NoUser == [principal |-> "None", login |-> NoLogin, streamer_login |-> NoLogin, id |-> FALSE]

\* what handling one event did
NoEffects ==
    [ev |-> "none", user |-> NoUser, text |-> <<>>, sent |-> <<>>, spawned |-> None,
     resolved |-> None, called |-> None, ping |-> FALSE, outcome |-> None,
     path |-> <<>>, message |-> <<>>, table |-> None, incremented |-> FALSE,
     ver |-> 0, latest |-> 0, pending |-> 0, ret |-> None, deleted |-> FALSE, logged |-> None,
     refreshed |-> FALSE, currency |-> None, edited |-> FALSE,
     own |-> <<>>, peeked |-> {}, registered |-> {}]

CycleReport(user, path) ==
    [to |-> User_display_name(user), text |-> "Recursion found in alias expansion",
     arg |-> path]

\* a faulty variant of explicit_command: a message answered from the
\* command table is not dispatched as a command
explicit_command_unless_table(t, c) ==
    IF t.table # None THEN t
    ELSE [t EXCEPT !.sent = t.sent \o c.sent, !.resolved = c.resolved,
                   !.spawned = c.spawned, !.called = c.called, !.ping = c.ping]

\* the explicit command of Handler::process_message: process_command runs
\* after the table-driven command, whatever that one did
explicit_command(t, c) ==
    [t EXCEPT !.sent = t.sent \o c.sent, !.resolved = c.resolved,
              !.spawned = c.spawned, !.called = c.called, !.ping = c.ping]

process_message(user, text, aliases, commands, currency_command, scripts, moderators, vips, fault) ==
    LET x == IF ~aliases.present
             THEN [outcome |-> "done", path |-> <<>>, message |-> text]
             ELSE expand_aliases(aliases.map, text, {}, <<>>, ExpandFuel)
        first == IF x.message = <<>> THEN None ELSE Head(x.message)
        table == IF ~commands.present THEN None ELSE Commands_resolve(commands, first)
        counted == table # None /\ commands.table[table]
        base == [NoEffects EXCEPT !.user = user, !.text = text, !.outcome = x.outcome,
                                  !.path = x.path, !.message = x.message,
                                  !.ver = commands.ver, !.currency = currency_command]
    IN IF x.outcome = "unbounded" THEN base
       ELSE IF x.outcome = "cycle"
       THEN [base EXCEPT !.sent = <<CycleReport(user, x.path)>>]
       ELSE IF table # None /\ counted /\ fault = "increment"
       THEN [base EXCEPT !.table = table, !.logged = "Failed to handle message"]
       ELSE IF table # None /\ fault = "render"
       THEN [base EXCEPT !.table = table, !.incremented = counted,
                         !.logged = "Failed to handle message"]
       ELSE LET t == IF table = None THEN base
                     ELSE [base EXCEPT !.table = table, !.incremented = counted,
                                       !.sent = <<Privmsg("table response")>>]
                c == IF first # None /\ StripBang(first) # None
                     THEN process_command(StripBang(first), user, currency_command,
                                          scripts, moderators, vips)
                     ELSE NoCommandEffects
            IN explicit_command(t, c)

\* the rest of Handler::process_message: the moderation check and the delete
moderate(e, moderators, vips, bad_words_enabled, url_whitelist_enabled, whitelisted_hosts) ==
    LET d == should_be_deleted(e.user, e.message, moderators, vips, bad_words_enabled,
                               url_whitelist_enabled, whitelisted_hosts)
    IN [e EXCEPT !.sent = e.sent \o d.sent,
                 !.deleted = d.delete /\ delete_message(e.user)]

(***************************************************************************)
(* parse_room_members, on the characters of the notice.                    *)
(***************************************************************************)
\* str::find: the index of the first occurrence of the character, or 0
RECURSIVE str_find(_, _, _)
str_find(str, ch, from) ==
    IF from > Len(str) THEN 0
    ELSE IF str[from] = ch THEN from
    ELSE str_find(str, ch, from + 1)

\* a faulty variant of trim_end_matches: nothing is removed
trim_end_matches_nothing(str, ch) == str

\* str::trim_end_matches
RECURSIVE trim_end_matches(_, _)
trim_end_matches(str, ch) ==
    IF str # <<>> /\ str[Len(str)] = ch
    THEN trim_end_matches(SubSeq(str, 1, Len(str) - 1), ch)
    ELSE str

\* str::trim, on the one whitespace character of the model
RECURSIVE str_trim(_)
str_trim(str) ==
    IF str # <<>> /\ Head(str) = " " THEN str_trim(Tail(str))
    ELSE IF str # <<>> /\ str[Len(str)] = " " THEN str_trim(SubSeq(str, 1, Len(str) - 1))
    ELSE str

\* str::split: the pieces between the occurrences of the character
RECURSIVE str_split(_, _)
str_split(str, ch) ==
    LET i == str_find(str, ch, 1)
    IN IF i = 0 THEN <<str>>
       ELSE <<SubSeq(str, 1, i - 1)>> \o str_split(SubSeq(str, i + 1, Len(str)), ch)

parse_room_members(message) ==
    LET index == str_find(message, ":", 1)
    IN IF index = 0 THEN {}
       ELSE LET pieces == str_split(trim_end_matches(SubSeq(message, index + 1, Len(message)),
                                                     "."), ",")
            IN {str_trim(pieces[i]) : i \in 1..Len(pieces)} \ {<<>>}

(***************************************************************************)
(* partition_response. A string is the sequence of its characters; its     *)
(* length and its indices count the bytes of its UTF-8 encoding, as        *)
(* String::len and the slices of the code do.                              *)
(***************************************************************************)
\* a character whose encoding takes two bytes
Wide == "w"

len_utf8(ch) == IF ch = Wide THEN 2 ELSE 1

\* String::len: one byte for every character and one more for every character
\* of two bytes
String_len(str) == Len(str) + Cardinality({i \in 1..Len(str) : len_utf8(str[i]) = 2})

\* the numbers of characters that index bytes can hold: a character takes
\* one byte or two
CharsWithin(str, index) ==
    {k \in ((index + 1) \div 2)..index : k <= Len(str)}

\* the number of characters of the prefix that ends at the byte index, or -1
\* when the index is within a character or beyond the string; the prefix of
\* index characters is tried first
prefix_chars(str, index) ==
    IF index <= Len(str) /\ String_len(SubSeq(str, 1, index)) = index
    THEN index
    ELSE IF \E k \in CharsWithin(str, index) : String_len(SubSeq(str, 1, k)) = index
    THEN CHOOSE k \in CharsWithin(str, index) : String_len(SubSeq(str, 1, k)) = index
    ELSE -1

\* str::is_char_boundary: the index is where some prefix of the string ends
is_char_boundary(str, index) == prefix_chars(str, index) # -1

\* &str[..index], index being a character boundary
slice_to(str, index) == SubSeq(str, 1, prefix_chars(str, index))

TAIL == <<".", ".", ".">>

\* `while index > 0 && !item_buf.is_char_boundary(index) { index -= 1 }`
RECURSIVE floor_char_boundary(_, _)
floor_char_boundary(str, index) ==
    IF index > 0 /\ ~is_char_boundary(str, index)
    THEN floor_char_boundary(str, index - 1)
    ELSE index

\* a faulty variant of push_item: the separator is written before every item
push_item_always_sep(line_buf, len, sep, item_buf) == line_buf \o sep \o item_buf

\* the item is appended to the line, after the separator when the line has
\* something already
push_item(line_buf, len, sep, item_buf) ==
    IF len > 0 THEN line_buf \o sep \o item_buf ELSE line_buf \o item_buf

\* what PartitionResponse::next returns: Some(line) or None, with the
\* iterator as it is left; forced tells that the line is an item cut to the
\* width, item and index which item and where; panic that the subtraction
\* `width - TAIL.len()` overflowed in a build that checks it
NoLine(iter) ==
    [some |-> FALSE, line |-> <<>>, forced |-> FALSE, item |-> <<>>, index |-> 0,
     panic |-> FALSE, iter |-> iter]

SomeLine(line, iter) == [NoLine(iter) EXCEPT !.some = TRUE, !.line = line]

\* the loop of PartitionResponse::next over the items left in the iterator
RECURSIVE next_loop(_, _, _, _, _, _)
next_loop(iter, line_buf, len, width, sep, overflow_checks) ==
    IF iter = <<>>
    THEN IF line_buf # <<>> THEN SomeLine(line_buf, iter) ELSE NoLine(iter)
    ELSE LET item_buf == Head(iter)
         IN IF len + String_len(item_buf) <= width
            THEN next_loop(Tail(iter), push_item(line_buf, len, sep, item_buf),
                           len + String_len(item_buf) + String_len(sep),
                           width, sep, overflow_checks)
            ELSE IF line_buf = <<>>
            THEN IF width < Len(TAIL) /\ overflow_checks
                 THEN [NoLine(Tail(iter)) EXCEPT !.panic = TRUE]
                 ELSE LET limit == IF width < Len(TAIL)
                                   THEN String_len(item_buf)
                                   ELSE width - Len(TAIL)
                          index == floor_char_boundary(item_buf,
                                       IF String_len(item_buf) < limit
                                       THEN String_len(item_buf) ELSE limit)
                      IN [SomeLine(slice_to(item_buf, index) \o TAIL, Tail(iter))
                            EXCEPT !.forced = TRUE, !.item = item_buf, !.index = index]
            ELSE SomeLine(line_buf, Tail(iter))

\* PartitionResponse::next: the line buffer is cleared and the loop run
PartitionResponse_next(iter, width, sep, overflow_checks) ==
    next_loop(iter, <<>>, 0, width, sep, overflow_checks)

\* the lines partition_response(iter, width, sep) yields until None; a panic
\* ends them
RECURSIVE partition_response(_, _, _, _)
partition_response(iter, width, sep, overflow_checks) ==
    LET r == PartitionResponse_next(iter, width, sep, overflow_checks)
    IN IF r.panic THEN <<r>>
       ELSE IF ~r.some THEN <<>>
       ELSE <<r>> \o partition_response(r.iter, width, sep, overflow_checks)

(***************************************************************************)
(* User::respond_lines.                                                    *)
(***************************************************************************)
\* the width respond_lines gives to partition_response
RespondWidth == 360
\* the separator respond_lines gives to partition_response
Separator == <<" ", "|", " ">>

\* the decimal digits of a number, as `{}` displays a usize
RECURSIVE to_string(_)
to_string(n) ==
    LET digit == <<"0", "1", "2", "3", "4", "5", "6", "7", "8", "9">>[(n % 10) + 1]
    IN IF n < 10 THEN <<digit>> ELSE to_string(n \div 10) \o <<digit>>

\* format!("{} ... {} line(s) not shown", line, count)
format_not_shown(line, count) ==
    line \o <<" ", ".", ".", ".", " ">> \o to_string(count)
         \o <<" ", "l", "i", "n", "e", "(", "s", ")", " ",
              "n", "o", "t", " ", "s", "h", "o", "w", "n">>

\* a faulty variant of Iterator::count on the rest of the lines: the line
\* taken before is counted too
count_with_first(output) == Len(output)

\* output.count(), after the first line was taken with output.next()
count_rest(output) == Len(output) - 1

\* User::respond_lines: the responses sent
respond_lines(user, results, empty) ==
    LET output == partition_response(results, RespondWidth, Separator, FALSE)
    IN IF output # <<>>
       THEN LET line == output[1].line
                count == count_rest(output)
            IN IF count > 0
               THEN <<User_respond(user, format_not_shown(line, count))>>
               ELSE <<User_respond(user, line)>>
       ELSE <<User_respond(user, empty)>>

(***************************************************************************)
(* The inputs of a session.                                                *)
(***************************************************************************)
EmptyMap == [k \in {} |-> FALSE]

\* the alias tables delivered on the alias stream (Option<db::Aliases>)
AliasesAbsent == [present |-> FALSE, map |-> EmptyMap]

AliasesChain ==
    [present |-> TRUE,
     map |-> (<<Zoe, "!a">> :> Template(<<"!b">>, TRUE))
             @@ (<<Zoe, "!b">> :> Template(<<"!poll">>, TRUE))
             @@ (<<Zoe, "hello">> :> [body |-> <<"hi">>, rest |-> FALSE, ok |-> FALSE])
             @@ (<<Amy, "!lurk">> :> Template(<<"!song">>, FALSE))]

AliasesCycle ==
    [present |-> TRUE,
     map |-> (<<Zoe, "!a">> :> Template(<<"!b">>, TRUE))
             @@ (<<Zoe, "!b">> :> Template(<<"!a">>, FALSE))
             @@ (<<Zoe, "!loop">> :> Template(<<"!loop">>, TRUE))]

AliasTables == {AliasesAbsent, AliasesChain, AliasesCycle}

\* the command table of the start of the session (Option<db::Commands>)
InitialCommands ==
    [ver |-> 0, present |-> TRUE, table |-> ("!lurk" :> TRUE) @@ ("!poll" :> FALSE)]

\* chat lines: the sender, whether the line carries an id tag, the text
Chat(login, id, text) == [login |-> login, id |-> id, text |-> text]

ChatLines ==
    {Chat(Bob, TRUE, <<"hello">>), Chat(Bob, TRUE, <<>>),
     Chat(Bob, TRUE, <<"!ping">>),
     Chat(Bob, TRUE, <<"!poll", "run">>), Chat(Amy, TRUE, <<"!poll", "run">>),
     Chat(Amy, TRUE, <<"!theme", "edit">>),
     Chat(Bob, TRUE, <<"!song">>), Chat(Bob, TRUE, <<"!coin">>),
     Chat(Bob, TRUE, <<"!a", "run">>), Chat(Amy, FALSE, <<"!A">>),
     Chat(Bob, TRUE, <<"!loop", "x">>), Chat(Bob, TRUE, <<"!b">>),
     Chat(Bob, TRUE, <<"darn">>), Chat(Bob, FALSE, <<"oh", "heck">>),
     Chat(Zoe, TRUE, <<"darn">>),
     Chat(Bob, TRUE, <<"http://bad.tv">>), Chat(Amy, TRUE, <<"http://bad.tv">>),
     Chat(Bob, TRUE, <<"see", "http://ok.tv">>),
     Chat(Bob, TRUE, <<"!lurk">>), Chat(Zoe, TRUE, <<"!LURK">>)}

\* raw commands injected through the command bus
RawCommands == {<<"!poll", "run">>, <<"!ping">>, <<"!song">>, <<"!a">>, <<"hello">>}

\* What a dispatch reads from its environment while it runs:
\* CurrencyHandler::command_name, the step of the table-driven command that
\* fails (if any), and the two toggles of the moderation filter.
Reading(currency_command, fault, bad_words_enabled, url_whitelist_enabled) ==
    [currency_command |-> currency_command, fault |-> fault,
     bad_words_enabled |-> bad_words_enabled,
     url_whitelist_enabled |-> url_whitelist_enabled]

\* the defaults of the settings: no currency, bad-words/enabled false,
\* url-whitelist/enabled true
DefaultReading == Reading(None, "none", FALSE, TRUE)

Readings ==
    {DefaultReading, Reading(None, "none", TRUE, TRUE),
     Reading("coin", "none", FALSE, TRUE), Reading("poll", "none", TRUE, FALSE)}

\* the member lists of the room_mods and vips_success notices
Msg_mods_amy == <<"a", "r", "e", ":", " ", "a", "m", "y">>
Msg_mods_none == <<"a", "r", "e", ":">>
Msg_vips_bob == <<"a", "r", "e", ":", " ", "b", "o", "b", ".">>

\* what a spawned handler or a script call ends with: Ok, an error that
\* carries a message for the user (command::Respond), any other error
TaskOutcomes == {"ok", "respond", "error"}
ScriptOutcomes == {"ok", "error"}

(***************************************************************************)
(* The state of one session.                                               *)
(***************************************************************************)
VARIABLES
    pc,               \* where IrcLoop::run is: "select", "script", "drain", "done"
    result,           \* what IrcLoop::run returned: "none", "Ok", "Err"
    error,            \* the error it returned
    leave,            \* the graceful-leave fuse: "empty", "armed"
    pong_timeout,     \* the pong-timeout fuse: "empty", "armed"
    probe,            \* history: "none", "sent" (unanswered), "answered"
    handler_shutdown, \* Handler::handler_shutdown
    join_task,        \* the join task: "pending", "done"
    commands,         \* Handler::commands, the snapshot in use
    commands_stream,  \* snapshots delivered and not yet received by the loop
    delivered,        \* history: the snapshots delivered so far, in order
    quiet,            \* history: no message was dispatched in this session yet
    aliases,          \* Handler::aliases
    moderators,       \* Handler::moderators
    vips,             \* Handler::vips
    whitelisted_hosts,\* Handler::whitelisted_hosts
    scripts,          \* the names of the loaded scripts
    tasks,            \* the bag of spawned handler tasks still running
    script_call,      \* the script call the loop is awaiting
    last,             \* what the last step did
    sup_pc,           \* where Irc::run is: "build", "session", "sleep", "wait"
    error_backoff,    \* the ExponentialBackoff of Irc::run
    provider,         \* the SetupProvider of Irc::run
    history,          \* history of the supervisor: its last failures and sleeps
    unit,             \* the last call of a function taken by itself, with its result
    themes,           \* db::Themes: the track of every theme that was edited
    hooks,            \* the message hooks and the tasks that run them
    caps              \* history: the capabilities requested and acknowledged

vars ==
    <<pc, result, error, leave, pong_timeout, probe, handler_shutdown, join_task,
      commands, commands_stream, delivered, quiet, aliases, moderators, vips,
      whitelisted_hosts, scripts, tasks, script_call, last,
      sup_pc, error_backoff, provider, history, unit, themes, hooks, caps>>

\* the variables a step of the loop leaves alone unless it says otherwise
control == <<pc, result, error, leave, handler_shutdown>>
fuse == <<pong_timeout, probe>>
config == <<commands, commands_stream, delivered, aliases, whitelisted_hosts, scripts>>
members == <<moderators, vips, caps>>
running == <<tasks, script_call, quiet>>
\* the state of Irc::run, which a step of a session leaves alone
supervisor == <<sup_pc, error_backoff, provider, history>>
modules == <<themes, hooks>>

NoCall == NoEffects

(***************************************************************************)
(* The error backoff of Irc::run: backoff::ExponentialBackoff::default()   *)
(* with current_interval and initial_interval set to five seconds and      *)
(* max_elapsed_time to None. Durations are counted in ticks of 1/128 s,    *)
(* in which every interval of the schedule and its half are whole numbers. *)
(***************************************************************************)
TicksPerSecond == 128
\* time::Duration::from_secs
from_secs(n) == n * TicksPerSecond
\* error_backoff.initial_interval
InitialInterval == from_secs(5)
\* max_interval, the default of the backoff crate: 60 seconds
MaxInterval == from_secs(60)
\* multiplier, the default of the backoff crate: 1.5
MultiplierNum == 3
MultiplierDen == 2
\* randomization_factor, the default of the backoff crate: 0.5
RandomizationNum == 1
RandomizationDen == 2

\* rand::random::<f64>() of [0, 1), by the halves of its range
Randoms == {0, 1, 2}

\* ExponentialBackoff::get_random_value_from_interval: a value of
\* [current - delta, current + delta], delta the randomization factor times
\* the current interval
get_random_value_from_interval(random, current_interval) ==
    LET delta == (current_interval * RandomizationNum) \div RandomizationDen
        min_interval == current_interval - delta
        max_interval == current_interval + delta
    IN min_interval + (random * (max_interval - min_interval)) \div 2

\* a faulty variant of increment_current_interval: max_interval is ignored
increment_current_interval_uncapped(current_interval) ==
    (current_interval * MultiplierNum) \div MultiplierDen

\* ExponentialBackoff::increment_current_interval: the interval times the
\* multiplier, or max_interval when that would exceed it
increment_current_interval(current_interval) ==
    IF current_interval * MultiplierNum >= MaxInterval * MultiplierDen
    THEN MaxInterval
    ELSE (current_interval * MultiplierNum) \div MultiplierDen

\* ExponentialBackoff::reset
Backoff_reset(backoff) == [backoff EXCEPT !.current_interval = InitialInterval]

\* ExponentialBackoff::next_backoff with max_elapsed_time None: the delay,
\* and the backoff with its interval incremented
next_backoff(backoff, random) ==
    [delay |-> get_random_value_from_interval(random, backoff.current_interval),
     backoff |-> [backoff EXCEPT !.current_interval =
                     increment_current_interval(backoff.current_interval)]]

\* history of the supervisor: the number of sessions that failed since the
\* start or the last Ok, the delays slept after the last two of them, how
\* the last session ended and whether a sleep followed it, the provider
\* builds that gave nothing since the last update, the sessions running
NoHistory ==
    [streak |-> 0, prev |-> 0, delay |-> 0, last_result |-> "none", slept |-> FALSE,
     idle_builds |-> 0, sessions |-> 0, setup |-> None]

\* the theme store before any edit, and the message hooks of a session in
\* which poll/enabled keeps its default, false: no poll is run and no hook
\* is ever inserted
NoThemes == [name \in {} |-> 0]

NoHooks == [enabled |-> FALSE, registry |-> {}, pending |-> <<>>, next_id |-> 1]

\* no capability was requested yet
NoCaps == [requested |-> FALSE, acked |-> {}]

InitModules ==
    /\ themes = NoThemes
    /\ hooks = NoHooks
    /\ caps = NoCaps

\* no function was called yet
NoUnit == [fn |-> "none"]

InitSupervisor ==
    /\ sup_pc = "build"
    /\ error_backoff = [current_interval |-> InitialInterval]
    /\ provider = [usable |-> TRUE, updated |-> FALSE]
    /\ history = NoHistory

Init ==
    /\ pc = "select"
    /\ result = "none"
    /\ error = None
    /\ leave = "empty"
    /\ pong_timeout = "empty"
    /\ probe = "none"
    /\ handler_shutdown = FALSE
    /\ join_task = "pending"
    /\ commands = InitialCommands
    /\ commands_stream = <<>>
    /\ delivered = <<>>
    /\ quiet = TRUE
    /\ aliases \in AliasTables
    /\ moderators = {}
    /\ vips = {}
    /\ whitelisted_hosts = {"ok.tv"}
    /\ scripts = ScriptNames
    /\ tasks = EmptyBag
    /\ script_call = NoCall
    /\ last = NoEffects
    /\ InitSupervisor
    /\ unit = NoUnit
    /\ InitModules

(***************************************************************************)
(* Pieces of the loop that the steps below share.                          *)
(***************************************************************************)
\* a faulty variant of Fuse_set: the fuse is left as it was
Fuse_set_keeps(f) == f

\* Fuse::set and Fuse::clear
Fuse_set(f) == "armed"

\* a faulty variant of Fuse_clear: the fuse keeps running
Fuse_clear_keeps(f) == f

Fuse_clear(f) == "empty"

\* a line sent to the server that is not a chat message
Send(text) == [to |-> NoLogin, text |-> text, arg |-> <<>>]

Continue == [pc |-> "select", result |-> "none", error |-> None]
Return(r, e) == [pc |-> "done", result |-> r, error |-> e]

\* a faulty variant of AfterHandle: the error of Handler::handle is propagated
AfterHandle_propagates(logged, shutdown) ==
    IF logged # None THEN Return("Err", logged)
    ELSE IF shutdown THEN Return("Err", "handler forcibly shut down")
    ELSE Continue

\* a faulty variant of AfterHandle: a line that failed to be handled shuts
\* the handler down
AfterHandle_shutdown_on_error(logged, shutdown) ==
    IF shutdown \/ logged # None
    THEN Return("Err", "handler forcibly shut down")
    ELSE Continue

\* the client_stream branch after Handler::handle returned: its error was
\* logged; the session ends when the handler asked for the shutdown
AfterHandle(logged, shutdown) ==
    IF shutdown THEN Return("Err", "handler forcibly shut down") ELSE Continue

\* the command branch after Handler::raw returned: its error was logged
AfterRaw(logged) == Continue

\* a faulty variant of recv_commands: the snapshot in use is kept
recv_commands_keeps(current, update) == IF current.ver > 0 THEN current ELSE update

\* the commands_stream branch: the snapshot received replaces the one in use
recv_commands(current, update) == update

\* a faulty variant of DrainSources: the pong-timeout fuse is still polled
DrainSources_with_pong == {"outgoing", "leave", "pong_timeout"}

\* the sources the loop polls after the leave fuse was armed
DrainSources == {"outgoing", "leave"}

\* a faulty variant of handler_error: the message of the error is dropped
handler_error_always_apology(user, outcome, respond) ==
    IF outcome = "ok" THEN <<>>
    ELSE <<User_respond(user, "Sorry, something went wrong :(")>>

\* the task spawned by process_command: what it sends when the handler returned
handler_error(user, outcome, respond) ==
    CASE outcome = "ok" -> <<>>
      [] outcome = "respond" -> <<User_respond(user, respond)>>
      [] OTHER -> <<User_respond(user, "Sorry, something went wrong :(")>>

\* process_command after the script call returned
script_error(user, outcome) ==
    IF outcome = "ok" THEN <<>>
    ELSE <<User_respond(user, "Sorry, something went wrong :(")>>

(***************************************************************************)
(* The theme handler (module/theme_admin.rs). It defines no scope of its   *)
(* own: the scope is checked inside handle, by the subcommands that edit.   *)
(***************************************************************************)
\* the words that parse as a track id
TrackIds == {"spotify:track:1"}

\* what a handler returns: Ok or an error, the message the error carries when
\* it is a command::Respond, what the handler has sent itself, and the theme
\* store as it leaves it
HandlerResult(ret, respond, own, store) ==
    [ret |-> ret, respond |-> respond, own |-> own, themes |-> store]

\* db::Themes::edit: the theme of that name gets the track
Themes_edit(store, name, track_id) ==
    [n \in DOMAIN store \cup {name} |-> IF n = name THEN track_id ELSE store[n]]

\* Context::check_scope: None when the caller has the scope, else the refusal
\* the error carries
check_scope(user, scope, mods, vs) ==
    IF User_has_scope(user, scope, mods, vs) THEN None
    ELSE IF User_is_moderator(user, mods)
    THEN "You are not allowed to run that command"
    ELSE "Do you think this is a democracy? LUL"

\* a faulty variant of the "edit" arm: the store is edited before the scope
\* is checked
Theme_edit_unchecked(user, rest, store, refusal) ==
    IF Len(rest) >= 2 /\ rest[2] \in TrackIds
    THEN HandlerResult("ok", None, <<User_respond(user, "Edited theme.")>>,
                 Themes_edit(store, rest[1], rest[2]))
    ELSE HandlerResult("ok", None, <<User_respond(user, "Expected: <name> <track-id>")>>,
                       store)

\* the "edit" arm of Handler::handle: the scope check returns its error
\* before the arguments are read and the store is edited
Theme_edit(user, rest, store, refusal) ==
    IF refusal # None
    THEN HandlerResult("respond", refusal, <<>>, store)
    ELSE IF Len(rest) >= 2 /\ rest[2] \in TrackIds
    THEN HandlerResult("ok", None, <<User_respond(user, "Edited theme.")>>,
                 Themes_edit(store, rest[1], rest[2]))
    ELSE HandlerResult("ok", None, <<User_respond(user, "Expected: <name> <track-id>")>>,
                       store)

\* theme_admin::Handler::handle on the words after `!theme`, with what the
\* task spawned by process_command sends for the error it returns
Theme_handle(user, rest, store, mods, vs) ==
    IF rest # <<>> /\ Head(rest) = "edit"
    THEN Theme_edit(user, Tail(rest), store,
                    check_scope(user, "ThemeEdit", mods, vs))
    ELSE HandlerResult("ok", None,
                 <<User_respond(user, "Expected: show, list, edit, edit-duration, delete, enable, disable, or group.")>>,
                 store)

(***************************************************************************)
(* The message hooks (context_inner.message_hooks) and the poll handler    *)
(* (module/poll.rs), which inserts a hook for a running poll.              *)
(***************************************************************************)
\* the task process_message spawns for the hooks: the caller and the message
\* as received; `registered` keeps the hooks registered when it was spawned
Delivery(user, text, registry) == [user |-> user, text |-> text, registered |-> registry]

\* the body of the spawned task: every hook in the registry when the task
\* runs is invoked, whether or not a hook before it failed
run_hooks(d, registry) == registry

\* a faulty variant of spawn_hooks: no task is spawned for the hooks
spawn_hooks_never(h, user, text) == h

\* process_message spawns the hook task before anything else. While polls are
\* disabled no hook is ever inserted, the task finds the registry empty, and
\* it is not kept.
spawn_hooks(h, user, text) ==
    IF h.enabled
    THEN [h EXCEPT !.pending = Append(@, Delivery(user, text, h.registry))]
    ELSE h

\* str::parse::<HookId> on the word after `close`: 0 stands for a bad id
parse_hook_id(word) ==
    IF \E n \in 1..MaxHooks : to_string(n) = <<word>>
    THEN CHOOSE n \in 1..MaxHooks : to_string(n) = <<word>>
    ELSE 0

PollResult(ret, respond, own, h) == [ret |-> ret, respond |-> respond, own |-> own, hooks |-> h]

\* the "close" arm of Poll::handle: with an id, or the poll created last
Poll_close(user, rest, h) ==
    LET id == IF rest # <<>> THEN parse_hook_id(Head(rest))
              ELSE IF h.registry = {} THEN 0
              ELSE CHOOSE i \in h.registry : \A j \in h.registry : j <= i
    IN IF rest # <<>> /\ id = 0 THEN PollResult("respond", "Bad id", <<>>, h)
       ELSE IF rest = <<>> /\ id = 0 THEN PollResult("respond", "No running polls", <<>>, h)
       ELSE IF id \notin h.registry THEN PollResult("respond", "No poll with id", <<>>, h)
       ELSE PollResult("ok", None, <<User_respond(user, "results of the poll")>>,
                       [h EXCEPT !.registry = @ \ {id}])

\* Poll::handle on the words after `!poll`
Poll_handle(user, rest, h) ==
    IF ~h.enabled THEN PollResult("ok", None, <<>>, h)
    ELSE IF rest # <<>> /\ Head(rest) = "run"
    THEN IF Len(rest) < 2
         THEN PollResult("respond", "Expected: <question> <options...>", <<>>, h)
         ELSE PollResult("ok", None, <<User_respond(user, "Started poll")>>,
                         [h EXCEPT !.registry = @ \cup {h.next_id},
                                   !.next_id = @ + 1])
    ELSE IF rest # <<>> /\ Head(rest) = "close"
    THEN Poll_close(user, Tail(rest), h)
    ELSE PollResult("ok", None, <<User_respond(user, "Expected: run, close.")>>, h)

\* a spawned handler with its context: the caller and the words that follow
\* the command
Task(handler, user, rest) == [handler |-> handler, user |-> user, rest |-> rest]

\* The end of a dispatch: it returned early (an error, an alias cycle), or it
\* is awaiting a script call, or it went on to the moderation check.
Dispatched(e, after, bad_words_enabled, url_whitelist_enabled) ==
    /\ hooks.enabled => Len(hooks.pending) < MaxDeliveries
    /\ hooks' = spawn_hooks(hooks, e.user, e.text)
    /\ UNCHANGED themes
    /\ IF e.logged # None \/ e.outcome # "done"
       THEN /\ last' = e
            /\ quiet' = FALSE
            /\ pc' = after.pc /\ result' = after.result /\ error' = after.error
            /\ UNCHANGED <<tasks, script_call>>
       ELSE IF e.called # None
       THEN /\ last' = e
            /\ quiet' = FALSE
            /\ script_call' = e
            /\ pc' = "script"
            /\ UNCHANGED <<tasks, result, error>>
       ELSE /\ quiet' = FALSE
            /\ e.spawned # None => BagCardinality(tasks) < MaxTasks
            /\ tasks' = IF e.spawned # None
                        THEN tasks (+) SetToBag({Task(e.spawned, e.user, Tail(e.message))})
                        ELSE tasks
            /\ last' = moderate(e, moderators, vips, bad_words_enabled,
                                url_whitelist_enabled, whitelisted_hosts)
            /\ pc' = after.pc /\ result' = after.result /\ error' = after.error
            /\ UNCHANGED script_call

Event(ev) == [NoEffects EXCEPT !.ev = ev]

(***************************************************************************)
(* The branches of the select of IrcLoop::run.                             *)
(***************************************************************************)
\* a faulty variant of join_requests: the greeting is left out
join_requests_only(join_message) ==
    <<Send("CAP REQ twitch.tv/tags"), Send("CAP REQ twitch.tv/commands")>>

\* the body of join_task: the two capability requests, then the greeting when
\* one is configured
join_requests(join_message) ==
    <<Send("CAP REQ twitch.tv/tags"), Send("CAP REQ twitch.tv/commands")>>
        \o (IF join_message # None THEN <<Privmsg(join_message)>> ELSE <<>>)

\* the join task: the capability requests and the greeting, when configured
JoinTask ==
    /\ pc = "select" /\ join_task = "pending"
    /\ join_task' = "done"
    /\ caps' = [caps EXCEPT !.requested = TRUE]
    /\ \E join_message \in {None, "join message"} :
          last' = [Event("join") EXCEPT !.sent = join_requests(join_message),
                                       !.ret = join_message]
    /\ UNCHANGED <<control, fuse, config, moderators, vips, running, supervisor, unit,
                   modules>>

\* a component future of the session: refresh_mods_future asks for the
\* moderators and the VIPs at every tick of its interval of five minutes,
\* the first of which completes at once
RefreshMods ==
    /\ pc = "select"
    /\ last' = [Event("refresh_mods") EXCEPT !.sent = <<Privmsg("/mods"), Privmsg("/vips")>>]
    /\ UNCHANGED <<control, fuse, join_task, config, members, running, supervisor, unit,
                   modules>>

\* scripts_watch_rx: Handler::handle_script_filesystem_event
ScriptsWatch(kinds) ==
    /\ pc = "select"
    /\ \E kind \in kinds, name \in ScriptNames :
          /\ scripts' = CASE kind = "load" -> scripts \cup {name}
                          [] kind = "remove" -> scripts \ {name}
                          [] OTHER -> scripts
          /\ last' = [Event("scripts_watch") EXCEPT !.logged =
                          IF kind = "canonicalize fails"
                          THEN "Failed to handle script filesystem event"
                          ELSE None]
    /\ UNCHANGED <<control, fuse, join_task, commands, commands_stream, delivered,
                   aliases, whitelisted_hosts, members, running,
                   supervisor, unit, modules>>

\* commands.recv() of the command bus: Handler::raw
BusCommand(raws, readings) ==
    /\ pc = "select"
    /\ \E command \in raws, r \in readings :
          LET e == process_message(InjectedPrincipal, command, aliases, commands,
                                   r.currency_command, scripts, moderators, vips,
                                   r.fault)
          IN Dispatched([e EXCEPT !.ev = "raw", !.latest = Len(delivered),
                                  !.pending = Len(commands_stream)],
                        AfterRaw(e.logged), r.bad_words_enabled,
                        r.url_whitelist_enabled)
    /\ UNCHANGED <<leave, handler_shutdown, fuse, join_task, config, members,
                   supervisor, unit>>

\* commands.recv() of the command bus fails
BusError ==
    /\ pc = "select"
    /\ pc' = "done" /\ result' = "Err" /\ error' = "command bus receive failed"
    /\ last' = Event("bus_error")
    /\ UNCHANGED <<leave, handler_shutdown, fuse, join_task, config, members, running,
                   supervisor, unit, modules>>

\* futures.next(): a component future ended, with Ok or with an error
FutureEnds ==
    /\ pc = "select"
    /\ pc' = "done" /\ result' = "Ok" /\ error' = None
    /\ \E r \in {"ok", "error"} : last' = [Event("future") EXCEPT !.ret = r]
    /\ UNCHANGED <<leave, handler_shutdown, fuse, join_task, config, members, running,
                   supervisor, unit, modules>>

\* a faulty variant of LeaveMessage: nothing is sent when the loop is left
LeaveMessage_kept == <<>>

\* handler.sender.privmsg_immediate(leave_message), after the loop
LeaveMessage == <<Privmsg("leave message")>>

\* provider.wait_for_update(): the leave fuse is armed, the loop is left and
\* the leave message is sent
ProviderUpdate ==
    /\ pc = "select"
    /\ leave' = Fuse_set(leave)
    /\ pc' = "drain"
    /\ last' = [Event("provider_update") EXCEPT !.sent = LeaveMessage]
    /\ UNCHANGED <<result, error, handler_shutdown, fuse, join_task, config, members,
                   running,
                   supervisor, unit, modules>>

\* the injector delivers a snapshot of the command table on the stream
CommandsDeliver(tables) ==
    /\ pc \in {"select", "script"}
    /\ Len(delivered) < MaxUpdates
    /\ \E t \in tables :
          LET snapshot == [ver |-> Len(delivered) + 1, present |-> t.present,
                           table |-> t.table]
          IN /\ commands_stream' = Append(commands_stream, snapshot)
             /\ delivered' = Append(delivered, [snapshot |-> snapshot, quiet |-> quiet])
    /\ UNCHANGED <<control, fuse, join_task, commands, aliases, whitelisted_hosts,
                   scripts, members, running, last,
                   supervisor, unit, modules>>

\* commands_stream.recv()
CommandsRecv ==
    /\ pc = "select"
    /\ commands_stream # <<>>
    /\ commands' = recv_commands(commands, Head(commands_stream))
    /\ commands_stream' = Tail(commands_stream)
    /\ last' = Event("commands")
    /\ UNCHANGED <<control, fuse, join_task, delivered, aliases, whitelisted_hosts,
                   scripts, members, running,
                   supervisor, unit, modules>>

\* aliases_stream.recv()
AliasesRecv(tables) ==
    /\ pc = "select"
    /\ \E update \in tables : aliases' = update
    /\ last' = Event("aliases")
    /\ UNCHANGED <<control, fuse, join_task, commands, commands_stream, delivered,
                   whitelisted_hosts, scripts, members, running,
                   supervisor, unit, modules>>

\* chat_log_builder.update()
ChatLogUpdate ==
    /\ pc = "select"
    /\ \E ok \in BOOLEAN :
          LET after == IF ok THEN Continue ELSE Return("Err", "chat log update failed")
          IN pc' = after.pc /\ result' = after.result /\ error' = after.error
    /\ last' = Event("chat_log")
    /\ UNCHANGED <<leave, handler_shutdown, fuse, join_task, config, members, running,
                   supervisor, unit, modules>>

\* api_url_stream.recv() and moderator_cooldown_stream.recv(): the values
\* are handed to the handlers, nothing in the loop reads them
SettingRecv ==
    /\ pc = "select"
    /\ \E setting \in {"api_url", "moderator_cooldown"} : last' = Event(setting)
    /\ UNCHANGED <<control, fuse, join_task, config, members, running,
                   supervisor, unit, modules>>

\* whitelisted_hosts_stream.recv()
WhitelistedHostsRecv(updates) ==
    /\ pc = "select"
    /\ \E update \in updates : whitelisted_hosts' = update
    /\ last' = Event("whitelisted_hosts")
    /\ UNCHANGED <<control, fuse, join_task, commands, commands_stream, delivered,
                   aliases, scripts, members, running,
                   supervisor, unit, modules>>

\* ping_interval.tick(): Handler::send_ping
PingTick ==
    /\ pc = "select"
    /\ pong_timeout' = Fuse_set(pong_timeout)
    /\ probe' = "sent"
    /\ last' = [Event("send_ping") EXCEPT !.sent = <<Send("PING")>>]
    /\ UNCHANGED <<control, join_task, config, members, running,
                   supervisor, unit, modules>>

\* the pong-timeout fuse fires
PongTimeout ==
    /\ pc = "select" \/ (pc = "drain" /\ "pong_timeout" \in DrainSources)
    /\ pong_timeout = "armed"
    /\ pc' = "done" /\ result' = "Err" /\ error' = "server not responding"
    /\ last' = Event("pong_timeout")
    /\ UNCHANGED <<leave, handler_shutdown, fuse, join_task, config, members, running,
                   supervisor, unit, modules>>

\* client_stream.next() fails
ClientError ==
    /\ pc = "select"
    /\ pc' = "done" /\ result' = "Err" /\ error' = "client stream failed"
    /\ last' = Event("client_error")
    /\ UNCHANGED <<leave, handler_shutdown, fuse, join_task, config, members, running,
                   supervisor, unit, modules>>

\* client_stream.next() is None: the stream ended
ClientEnd ==
    /\ pc = "select"
    /\ LET after == AfterHandle(None, handler_shutdown)
       IN pc' = after.pc /\ result' = after.result /\ error' = after.error
    /\ last' = Event("client_end")
    /\ UNCHANGED <<leave, handler_shutdown, fuse, join_task, config, members, running,
                   supervisor, unit, modules>>

\* the outgoing future ends, in the loop or while the session drains
OutgoingEnds ==
    /\ pc = "select" \/ (pc = "drain" /\ "outgoing" \in DrainSources)
    /\ pc' = "done" /\ result' = "Err" /\ error' = "outgoing future ended unexpectedly"
    /\ last' = Event("outgoing")
    /\ UNCHANGED <<leave, handler_shutdown, fuse, join_task, config, members, running,
                   supervisor, unit, modules>>

\* the leave fuse fires while the session drains
LeaveElapsed ==
    /\ pc = "drain" /\ "leave" \in DrainSources
    /\ leave = "armed"
    /\ pc' = "done" /\ result' = "Ok" /\ error' = None
    /\ last' = Event("leave")
    /\ UNCHANGED <<leave, handler_shutdown, fuse, join_task, config, members, running,
                   supervisor, unit, modules>>

(***************************************************************************)
(* client_stream.next() yields a line: the arms of Handler::handle,        *)
(* followed by the shutdown test of the loop.                              *)
(***************************************************************************)
\* the variables the arms other than PRIVMSG leave alone
HandleFrame == UNCHANGED <<leave, join_task, config, running,
                   supervisor, unit, modules>>

\* what the loop does once Handler::handle returned with this log
Handled(logged, shutdown) ==
    LET after == AfterHandle(logged, shutdown)
    IN pc' = after.pc /\ result' = after.result /\ error' = after.error

\* PRIVMSG
HandlePrivmsg(lines, readings) ==
    /\ pc = "select"
    /\ \E line \in lines, r \in readings :
          LET e == process_message(RealPrincipal(line.login, line.id), line.text,
                                   aliases, commands, r.currency_command, scripts,
                                   moderators, vips, r.fault)
          IN Dispatched([e EXCEPT !.ev = "privmsg", !.latest = Len(delivered),
                                  !.pending = Len(commands_stream)],
                        AfterHandle(e.logged, handler_shutdown),
                        r.bad_words_enabled, r.url_whitelist_enabled)
    /\ UNCHANGED <<leave, handler_shutdown, fuse, join_task, config, members,
                   supervisor, unit>>

\* PRIVMSG without the nickname of its source: "expected user info"
HandlePrivmsgNoSource ==
    /\ pc = "select"
    /\ Handled("Failed to handle message", handler_shutdown)
    /\ last' = [Event("privmsg_no_source") EXCEPT !.logged = "Failed to handle message"]
    /\ UNCHANGED <<handler_shutdown, fuse, members>>
    /\ HandleFrame

\* the CAP ACK arm: the lists of moderators and VIPs are asked for when the
\* capability acknowledged is twitch.tv/commands
cap_ack(what) ==
    IF what = "twitch.tv/commands"
    THEN <<Privmsg("/mods"), Privmsg("/vips")>>
    ELSE <<>>

\* CAP ACK, of a capability that was requested
HandleCapAck(whats) ==
    /\ pc = "select"
    /\ Handled(None, handler_shutdown)
    /\ caps.requested
    /\ \E what \in whats :
          /\ caps' = [caps EXCEPT !.acked = IF what = None THEN @ ELSE @ \cup {what}]
          /\ last' = [Event("cap_ack") EXCEPT !.sent = cap_ack(what), !.ret = what]
    /\ UNCHANGED <<handler_shutdown, fuse, moderators, vips>>
    /\ HandleFrame

\* the arguments of the PINGs of the peer: a server, and a second one or not
PingArguments == {<<"tmi.twitch.tv", None>>, <<"a.tv", "b.tv">>}

\* a faulty variant of ping_reply: the reply carries no argument
ping_reply_bare(server, other) == <<Send("PONG")>>

\* the PING arm: one PONG with the arguments of the PING, sent at once
ping_reply(server, other) ==
    <<[to |-> NoLogin, text |-> "PONG", arg |-> <<server, other>>]>>

\* PING of the peer
HandlePing ==
    /\ pc = "select"
    /\ Handled(None, handler_shutdown)
    /\ \E a \in PingArguments :
          last' = [Event("PING") EXCEPT !.sent = ping_reply(a[1], a[2]), !.message = a]
    /\ UNCHANGED <<handler_shutdown, fuse, members>>
    /\ HandleFrame

\* PONG
HandlePong ==
    /\ pc = "select"
    /\ Handled(None, handler_shutdown)
    /\ pong_timeout' = Fuse_clear(pong_timeout)
    /\ probe' = IF probe = "sent" THEN "answered" ELSE probe
    /\ last' = Event("PONG")
    /\ UNCHANGED <<handler_shutdown, members>>
    /\ HandleFrame

\* NOTICE "Login authentication failed", whatever its msg-id
HandleNoticeAuth ==
    /\ pc = "select"
    /\ \E refresh_ok \in BOOLEAN :
          IF refresh_ok
          THEN /\ handler_shutdown' = TRUE
               /\ Handled(None, TRUE)
               /\ last' = [Event("notice_auth") EXCEPT !.refreshed = TRUE]
          ELSE /\ handler_shutdown' = handler_shutdown
               /\ Handled("Failed to handle message", handler_shutdown)
               /\ last' = [Event("notice_auth") EXCEPT
                              !.logged = "Failed to handle message"]
    /\ UNCHANGED <<fuse, members>>
    /\ HandleFrame

\* the arms of the NOTICE match that write self.moderators
notice_moderators(msg_id, message, mods) ==
    CASE msg_id = "no_mods" -> {}
      [] msg_id = "room_mods" -> parse_room_members(message)
      [] OTHER -> mods

\* a faulty variant of notice_vips: the notices of the moderators write the
\* VIP set as well
notice_vips_any_list(msg_id, message, vs) ==
    CASE msg_id \in {"no_vips", "no_mods"} -> {}
      [] msg_id \in {"vips_success", "room_mods"} -> parse_room_members(message)
      [] OTHER -> vs

\* the arms of the NOTICE match that write self.vips
notice_vips(msg_id, message, vs) ==
    CASE msg_id = "no_vips" -> {}
      [] msg_id = "vips_success" -> parse_room_members(message)
      [] OTHER -> vs

\* the other NOTICEs, by msg-id
HandleNotice(msg_ids, messages) ==
    /\ pc = "select"
    /\ Handled(None, handler_shutdown)
    /\ \E msg_id \in msg_ids, message \in messages :
          /\ moderators' = notice_moderators(msg_id, message, moderators)
          /\ vips' = notice_vips(msg_id, message, vips)
          /\ last' = [Event("notice") EXCEPT !.ret = msg_id, !.message = message]
    /\ UNCHANGED <<handler_shutdown, fuse, caps>>
    /\ HandleFrame

\* JOIN, a numeric response, CLEARMSG and CLEARCHAT (forwarded to the chat
\* log), any other raw command, any other command
HandleOther ==
    /\ pc = "select"
    /\ Handled(None, handler_shutdown)
    /\ \E command \in {"JOIN", "Response", "CLEARMSG", "CLEARCHAT", "Raw", "other"} :
          last' = [Event("line") EXCEPT !.ret = command]
    /\ UNCHANGED <<handler_shutdown, fuse, members>>
    /\ HandleFrame

(***************************************************************************)
(* Handler executions.                                                     *)
(***************************************************************************)
\* the script call the loop awaits returns: process_command answers an
\* error, then process_message goes on to the moderation check
ScriptReturn(readings) ==
    /\ pc = "script"
    /\ \E outcome \in ScriptOutcomes, r \in readings :
          LET e == [script_call EXCEPT !.ev = "script_return", !.ret = outcome,
                                       !.sent = script_error(script_call.user, outcome)]
              after == IF script_call.ev = "raw" THEN AfterRaw(None)
                       ELSE AfterHandle(None, handler_shutdown)
          IN /\ last' = moderate(e, moderators, vips, r.bad_words_enabled,
                                 r.url_whitelist_enabled, whitelisted_hosts)
             /\ pc' = after.pc /\ result' = after.result /\ error' = after.error
    /\ script_call' = NoCall
    /\ UNCHANGED <<leave, handler_shutdown, fuse, join_task, config, members, tasks,
                   quiet,
                   supervisor, unit, modules>>

\* a spawned handler task ends; it runs on its own, whatever the loop does
TaskFinish ==
    /\ \E t \in BagToSet(tasks), outcome \in TaskOutcomes :
          LET p == Poll_handle(t.user, t.rest, hooks)
              h == IF t.handler = "theme"
                   THEN Theme_handle(t.user, t.rest, themes, moderators, vips)
                   ELSE IF t.handler = "poll" /\ hooks.enabled
                   THEN HandlerResult(p.ret, p.respond, p.own, themes)
                   ELSE HandlerResult(outcome, "message of the error", <<>>, themes)
          IN /\ tasks' = tasks (-) SetToBag({t})
             /\ themes' = h.themes
             /\ p.hooks.next_id <= MaxHooks + 1
             /\ hooks' = IF t.handler = "poll" THEN p.hooks ELSE hooks
             /\ last' = [Event("task") EXCEPT !.user = t.user, !.resolved = t.handler,
                                              !.message = t.rest,
                                              !.ret = h.ret,
                                              !.edited = (h.themes # themes),
                                              !.own = h.own,
                                              !.sent = handler_error(t.user, h.ret,
                                                                     h.respond)]
    /\ UNCHANGED <<control, fuse, join_task, config, members, script_call, quiet,
                   supervisor, unit>>

\* the task spawned for the hooks runs: it takes the registry as it is now
\* and invokes every hook in it; a hook that fails is logged
HookTask ==
    /\ \E i \in 1..Len(hooks.pending), failing \in SUBSET hooks.registry :
          LET d == hooks.pending[i]
          IN /\ hooks' = [hooks EXCEPT !.pending =
                            SubSeq(@, 1, i - 1) \o SubSeq(@, i + 1, Len(@))]
             /\ last' = [Event("hooks") EXCEPT
                            !.user = d.user, !.text = d.text,
                            !.registered = d.registered,
                            !.peeked = run_hooks(d, hooks.registry),
                            !.logged = IF failing # {} THEN "Hook failed" ELSE None]
    /\ UNCHANGED <<control, fuse, join_task, config, members, running, supervisor,
                   unit, themes>>

(***************************************************************************)
(* The session. Spec is the event loop with every branch of its select and *)
(* every arm of Handler::handle, on a handful of chat lines; SpecMsg is a   *)
(* session that receives every chat line and raw command of the model      *)
(* under every alias table.                                                *)
(***************************************************************************)
ScriptEvents == {"load", "remove", "canonicalize fails", "ignored"}

LoopLines ==
    {Chat(Bob, TRUE, <<"hello">>), Chat(Bob, TRUE, <<"!poll", "run">>),
     Chat(Bob, TRUE, <<"!song">>), Chat(Bob, TRUE, <<"!lurk">>)}
LoopRaws == {<<"!poll", "run">>, <<"!song">>}
LoopReadings ==
    {DefaultReading, Reading(None, "increment", FALSE, TRUE),
     Reading(None, "render", FALSE, TRUE)}
LoopTables == {[present |-> TRUE, table |-> ("!lurk" :> FALSE)]}

Next ==
    \/ JoinTask
    \/ ScriptsWatch(ScriptEvents)
    \/ BusCommand(LoopRaws, LoopReadings)
    \/ BusError
    \/ FutureEnds
    \/ RefreshMods
    \/ ProviderUpdate
    \/ CommandsDeliver(LoopTables)
    \/ CommandsRecv
    \/ AliasesRecv({AliasesAbsent})
    \/ ChatLogUpdate
    \/ SettingRecv
    \/ WhitelistedHostsRecv({{"ok.tv"}})
    \/ PingTick
    \/ PongTimeout
    \/ ClientError
    \/ ClientEnd
    \/ OutgoingEnds
    \/ LeaveElapsed
    \/ HandlePrivmsg(LoopLines, LoopReadings)
    \/ HandlePrivmsgNoSource
    \/ HandleCapAck({None})
    \/ HandlePing
    \/ HandlePong
    \/ HandleNoticeAuth
    \/ HandleNotice({"no_mods", "room_mods", "other"}, {Msg_mods_amy})
    \/ HandleOther
    \/ ScriptReturn(LoopReadings)
    \/ TaskFinish

InitLoop == Init /\ aliases = AliasesAbsent

Spec == InitLoop /\ [][Next]_vars

NextMsg ==
    \/ HandlePrivmsg(ChatLines, Readings)
    \/ BusCommand(RawCommands, {DefaultReading})
    \/ ScriptReturn({DefaultReading})
    \/ TaskFinish
    \/ AliasesRecv(AliasTables)
    \/ ScriptsWatch(ScriptEvents)
    \/ HandleNotice({"no_mods", "room_mods"}, {Msg_mods_amy})

SpecMsg == Init /\ [][NextMsg]_vars

(***************************************************************************)
(* Irc::run, the supervisor. A session is taken as a whole: it is built     *)
(* from what the provider has, runs, and returns Ok or an error.            *)
(***************************************************************************)
session ==
    <<pc, result, error, leave, pong_timeout, probe, handler_shutdown, join_task,
      commands, commands_stream, delivered, quiet, aliases, moderators, vips,
      whitelisted_hosts, scripts, tasks, script_call, last, caps>>

\* a faulty variant of after_build: a session is run whatever was built
after_build_always_runs(setup) == "session"

\* `while let Some(setup) = provider.build()`: run a session when a setup
\* was built, else go on to provider.wait()
after_build(setup) == IF setup # None THEN "session" ELSE "wait"

\* SetupProvider::build: a Setup when every dependency is there
Provider_build(p) == IF p.usable THEN "Setup" ELSE None

\* provider.build()
ProviderBuild ==
    /\ sup_pc = "build"
    /\ LET setup == Provider_build(provider)
       IN /\ sup_pc' = after_build(setup)
          /\ history' = [history EXCEPT
                !.setup = IF after_build(setup) = "session" THEN setup ELSE None,
                !.sessions = IF after_build(setup) = "session" THEN @ + 1 ELSE @,
                !.idle_builds = IF setup = None /\ @ < MaxIdleBuilds THEN @ + 1 ELSE @]
    /\ UNCHANGED <<error_backoff, provider, session, unit, modules>>

\* irc_loop.run().await returns
SessionReturns ==
    /\ sup_pc = "session"
    /\ \/ /\ error_backoff' = Backoff_reset(error_backoff)
          /\ sup_pc' = "build"
          /\ history' = [history EXCEPT !.streak = 0, !.prev = 0, !.delay = 0,
                                        !.last_result = "Ok", !.slept = FALSE,
                                        !.sessions = @ - 1, !.setup = None]
       \/ /\ history.streak < MaxFailures
          /\ \E random \in Randoms :
                LET next == next_backoff(error_backoff, random)
                IN /\ error_backoff' = next.backoff
                   /\ history' = [history EXCEPT !.streak = @ + 1, !.prev = history.delay,
                                                 !.delay = next.delay,
                                                 !.last_result = "Err", !.slept = FALSE,
                                                 !.sessions = @ - 1, !.setup = None]
          /\ sup_pc' = "sleep"
    /\ UNCHANGED <<provider, session, unit, modules>>

\* tokio::time::sleep(backoff).await is over
SleepElapsed ==
    /\ sup_pc = "sleep"
    /\ sup_pc' = "build"
    /\ history' = [history EXCEPT !.slept = TRUE]
    /\ UNCHANGED <<error_backoff, provider, session, unit, modules>>

\* provider.wait().await returns: an update of the dependencies was notified
ProviderWait ==
    /\ sup_pc = "wait"
    /\ provider.updated
    /\ provider' = [provider EXCEPT !.updated = FALSE]
    /\ sup_pc' = "build"
    /\ history' = [history EXCEPT !.idle_builds = 0]
    /\ UNCHANGED <<error_backoff, session, unit, modules>>

\* the injector updates a dependency: it appears, changes or goes away
DependencyUpdate ==
    /\ \E usable \in BOOLEAN : provider' = [usable |-> usable, updated |-> TRUE]
    /\ history' = [history EXCEPT !.idle_builds = 0]
    /\ UNCHANGED <<sup_pc, error_backoff, session, unit, modules>>

NextSup ==
    \/ ProviderBuild
    \/ SessionReturns
    \/ SleepElapsed
    \/ ProviderWait
    \/ DependencyUpdate

SpecSup == InitLoop /\ [][NextSup]_vars

(***************************************************************************)
(* SpecPrio is a session in which the names of the tiers of process_command *)
(* overlap: a script, the currency and a table-driven command may carry the *)
(* name of a registered handler or of the built-in ping.                    *)
(***************************************************************************)
PrioScripts == {"song", "poll", "ping"}

PrioWords == {"!ping", "!poll", "!coin", "!song", "!theme"}

PrioLines ==
    {Chat(login, TRUE, <<word, "x">>) : login \in {Amy, Bob}, word \in PrioWords}
        \cup {Chat(Bob, TRUE, <<"hello">>)}

PrioRaws == {<<"!ping">>, <<"!song">>, <<"!coin">>}

PrioReadings ==
    {Reading(name, fault, FALSE, TRUE) :
        name \in {None, "coin", "poll", "ping", "song"}, fault \in {"none"}}
        \cup {Reading(None, "increment", FALSE, TRUE), Reading(None, "render", FALSE, TRUE)}

\* the command table of the session: `!poll` counts its uses
PrioCommands ==
    [ver |-> 0, present |-> TRUE,
     table |-> ("!poll" :> TRUE) @@ ("!coin" :> FALSE) @@ ("!ping" :> FALSE)]

InitPrio ==
    /\ pc = "select"
    /\ result = "none"
    /\ error = None
    /\ leave = "empty"
    /\ pong_timeout = "empty"
    /\ probe = "none"
    /\ handler_shutdown = FALSE
    /\ join_task = "pending"
    /\ commands = PrioCommands
    /\ commands_stream = <<>>
    /\ delivered = <<>>
    /\ quiet = TRUE
    /\ aliases = AliasesAbsent
    /\ moderators = {}
    /\ vips = {}
    /\ whitelisted_hosts = {"ok.tv"}
    /\ scripts \in SUBSET PrioScripts
    /\ tasks = EmptyBag
    /\ script_call = NoCall
    /\ last = NoEffects
    /\ InitSupervisor
    /\ unit = NoUnit
    /\ InitModules

NextPrio ==
    \/ HandlePrivmsg(PrioLines, PrioReadings)
    \/ BusCommand(PrioRaws, PrioReadings)
    \/ ScriptReturn({DefaultReading})
    \/ TaskFinish
    \/ HandleNotice({"no_mods", "room_mods"}, {Msg_mods_amy})

SpecPrio == InitPrio /\ [][NextPrio]_vars

(***************************************************************************)
(* The theme handler in a session: `!theme` lines of a moderator and of a  *)
(* subscriber, while the moderators of the room come and go.                *)
(***************************************************************************)
ThemeLines ==
    {Chat(login, TRUE, <<"!theme">> \o rest) :
        login \in {Amy, Bob, Zoe},
        rest \in {<<"edit", "foo", "bar">>, <<"edit", "foo", "spotify:track:1">>,
                  <<"edit">>, <<"list">>}}

NextTheme ==
    \/ HandlePrivmsg(ThemeLines, {DefaultReading})
    \/ TaskFinish
    \/ HandleNotice({"no_mods", "room_mods"}, {Msg_mods_amy})

SpecTheme == InitLoop /\ [][NextTheme]_vars

(***************************************************************************)
(* The message hooks in a session where polls are enabled: polls are run   *)
(* and closed by a subscriber, directly and through an alias, while chat    *)
(* lines and injected commands come in.                                     *)
(***************************************************************************)
HookLines ==
    {Chat(Bob, TRUE, <<"!poll", "run", "q">>), Chat(Bob, TRUE, <<"!poll", "close">>),
     Chat(Bob, TRUE, <<"!poll", "close", "1">>), Chat(Bob, TRUE, <<"!a", "run", "q">>),
     Chat(Amy, TRUE, <<"yes">>)}

HookRaws == {<<"yes">>}

InitHooks ==
    /\ pc = "select"
    /\ result = "none"
    /\ error = None
    /\ leave = "empty"
    /\ pong_timeout = "empty"
    /\ probe = "none"
    /\ handler_shutdown = FALSE
    /\ join_task = "pending"
    /\ commands = InitialCommands
    /\ commands_stream = <<>>
    /\ delivered = <<>>
    /\ quiet = TRUE
    /\ aliases = AliasesChain
    /\ moderators = {}
    /\ vips = {}
    /\ whitelisted_hosts = {"ok.tv"}
    /\ scripts = {}
    /\ tasks = EmptyBag
    /\ script_call = NoCall
    /\ last = NoEffects
    /\ InitSupervisor
    /\ unit = NoUnit
    /\ themes = NoThemes
    /\ hooks = [NoHooks EXCEPT !.enabled = TRUE]
    /\ caps = NoCaps

NextHooks ==
    \/ HandlePrivmsg(HookLines, {DefaultReading})
    \/ BusCommand(HookRaws, {DefaultReading})
    \/ TaskFinish
    \/ HookTask

SpecHooks == InitHooks /\ [][NextHooks]_vars

(***************************************************************************)
(* A session with polls enabled whose alias table holds two cycles: chat   *)
(* lines and injected commands that run into a cycle, between lines that   *)
(* do not.                                                                 *)
(***************************************************************************)
CycleLines ==
    {Chat(Bob, TRUE, <<"!a", "yes">>), Chat(Bob, TRUE, <<"!loop", "darn">>),
     Chat(Bob, TRUE, <<"!lurk">>), Chat(Bob, TRUE, <<"!poll", "run", "q">>)}

CycleRaws == {<<"!a">>, <<"!lurk">>}

CycleReadings == {DefaultReading}

InitCycle ==
    /\ pc = "select"
    /\ result = "none"
    /\ error = None
    /\ leave = "empty"
    /\ pong_timeout = "empty"
    /\ probe = "none"
    /\ handler_shutdown = FALSE
    /\ join_task = "pending"
    /\ commands = InitialCommands
    /\ commands_stream = <<>>
    /\ delivered = <<>>
    /\ quiet = TRUE
    /\ aliases = AliasesCycle
    /\ moderators = {}
    /\ vips = {}
    /\ whitelisted_hosts = {"ok.tv"}
    /\ scripts = {}
    /\ tasks = EmptyBag
    /\ script_call = NoCall
    /\ last = NoEffects
    /\ InitSupervisor
    /\ unit = NoUnit
    /\ themes = NoThemes
    /\ hooks = [NoHooks EXCEPT !.enabled = TRUE]
    /\ caps = NoCaps

NextCycle ==
    \/ HandlePrivmsg(CycleLines, CycleReadings)
    \/ BusCommand(CycleRaws, CycleReadings)
    \/ TaskFinish
    \/ HookTask

SpecCycle == InitCycle /\ [][NextCycle]_vars

(***************************************************************************)
(* The moderation check at the end of process_message taken by itself, on  *)
(* messages with bad words and links, of senders with and without an id     *)
(* tag, for each setting of the two toggles.                                *)
(***************************************************************************)
ModeratedUsers ==
    {RealPrincipal(login, id) : login \in {Amy, Bob, Zoe}, id \in BOOLEAN}
        \cup {InjectedPrincipal}

ModeratedMessages ==
    {<<"hello">>, <<"darn">>, <<"oh", "heck">>, <<"heck", "darn">>,
     <<"http://bad.tv">>, <<"see", "http://ok.tv">>, <<"darn", "http://bad.tv">>}

HostSets == {{}, {"ok.tv"}, {"ok.tv", "bad.tv"}}

Moderate ==
    /\ unit = NoUnit
    /\ \E user \in ModeratedUsers, message \in ModeratedMessages,
          mods \in SUBSET {Amy}, vs \in SUBSET {Bob},
          bad_words_enabled, url_whitelist_enabled \in BOOLEAN, hosts \in HostSets :
          unit' = [fn |-> "moderate", user |-> user, message |-> message,
                   moderators |-> mods, vips |-> vs,
                   bad_words_enabled |-> bad_words_enabled,
                   url_whitelist_enabled |-> url_whitelist_enabled,
                   whitelisted_hosts |-> hosts,
                   result |-> moderate([NoEffects EXCEPT !.user = user,
                                                         !.message = message],
                                       mods, vs, bad_words_enabled,
                                       url_whitelist_enabled, hosts)]
    /\ UNCHANGED <<session, supervisor, modules>>

NextModerate == Moderate

SpecModerate == InitLoop /\ [][NextModerate]_vars

(***************************************************************************)
(* The notices that list the moderators and the VIPs of the room, while    *)
(* spawned handlers read the two sets.                                      *)
(***************************************************************************)
NoticeIds == {"no_mods", "room_mods", "no_vips", "vips_success", "other"}

NoticeMessages == {Msg_mods_amy, Msg_mods_none, Msg_vips_bob}

NoticeLines ==
    {Chat(login, TRUE, <<"!theme", "edit", "foo", "spotify:track:1">>) :
        login \in {Amy, Bob}}

NextNotice ==
    \/ HandleNotice(NoticeIds, NoticeMessages)
    \/ HandleNoticeAuth
    \/ HandlePrivmsg(NoticeLines, {DefaultReading})
    \/ TaskFinish

SpecNotice == InitLoop /\ [][NextNotice]_vars

(***************************************************************************)
(* The start of a session: the join task, the acknowledgments of the       *)
(* capabilities, the refresh of the lists, the keepalive and the leave.     *)
(***************************************************************************)
NextJoin ==
    \/ JoinTask
    \/ RefreshMods
    \/ HandleCapAck({"twitch.tv/commands", "twitch.tv/tags", None})
    \/ HandlePing
    \/ PingTick
    \/ HandlePong
    \/ PongTimeout
    \/ ProviderUpdate
    \/ OutgoingEnds
    \/ LeaveElapsed

SpecJoin == InitLoop /\ [][NextJoin]_vars

(***************************************************************************)
(* parse_room_members taken by itself, on the notices that list the        *)
(* members of a room: a text up to a colon, the names separated by commas, *)
(* and a period at the end of some of them.                                *)
(***************************************************************************)
\* the entries between the commas of a notice: names, an empty entry, and a
\* name that ends with a period
Entries == {<<"a">>, <<"b", "o">>, <<>>, <<"c", ".">>}

\* the lists of at most MaxNames entries
NameLists == UNION {[1..n -> Entries] : n \in 0..MaxNames}

\* the orders in which the entries of a list can be written
Reorderings(names) ==
    {[i \in 1..Len(names) |-> names[f[i]]] :
        f \in {g \in [1..Len(names) -> 1..Len(names)] :
                 \A i, j \in 1..Len(names) : g[i] = g[j] => i = j}}

RECURSIVE join(_, _)
join(strs, sep) ==
    IF strs = <<>> THEN <<>>
    ELSE IF Len(strs) = 1 THEN strs[1]
    ELSE strs[1] \o sep \o join(Tail(strs), sep)

\* the text of a notice: "are", a colon or none, the entries separated by a
\* comma and a space or by a comma, a period at the end or none
Notice(names, colon, space, period) ==
    <<"a", "r", "e">> \o (IF colon THEN <<":">> ELSE <<>>)
                      \o (IF space THEN <<" ">> ELSE <<>>)
                      \o join(names, IF space THEN <<",", " ">> ELSE <<",">>)
                      \o (IF period THEN <<".">> ELSE <<>>)

\* parse_room_members(message), the first call of a behaviour, and the same
\* on the notice with its entries in another order, and once more on the same
\* notice
ParseRoomMembers ==
    /\ unit = NoUnit
    /\ \E names \in NameLists, colon, space, period \in BOOLEAN :
          \E reordered \in Reorderings(names) :
             LET message == Notice(names, colon, space, period)
             IN unit' = [fn |-> "parse_room_members",
                         names |-> names,
                         colon |-> colon,
                         message |-> message,
                         members |-> parse_room_members(message),
                         reordered |-> Notice(reordered, colon, space, period),
                         members_reordered |->
                             parse_room_members(Notice(reordered, colon, space, period)),
                         again |-> parse_room_members(message)]
    /\ UNCHANGED <<session, supervisor, modules>>

NextParse == ParseRoomMembers

SpecParse == InitLoop /\ [][NextParse]_vars

(***************************************************************************)
(* partition_response taken by itself, on short items and small widths,    *)
(* with the separator of its one caller.                                   *)
(***************************************************************************)
\* the items: every string of at most MaxItemLen characters, of one and of
\* two bytes
ItemStrings == UNION {[1..n -> {"a", Wide}] : n \in 0..MaxItemLen}

ItemLists == UNION {[1..n -> ItemStrings] : n \in 0..MaxItems}

Widths == 2..MaxWidth

\* partition_response(items, width, " | ") run to its end, the first call of
\* a behaviour
PartitionResponse ==
    /\ unit = NoUnit
    /\ \E items \in ItemLists, width \in Widths, overflow_checks \in BOOLEAN :
          unit' = [fn |-> "partition_response",
                   items |-> items,
                   width |-> width,
                   sep |-> Separator,
                   lines |-> partition_response(items, width, Separator, overflow_checks)]
    /\ UNCHANGED <<session, supervisor, modules>>

NextPartition == PartitionResponse

SpecPartition == InitLoop /\ [][NextPartition]_vars

(***************************************************************************)
(* User::respond_lines taken by itself, on results that fill no line, one  *)
(* line, and several lines of 360 bytes.                                   *)
(***************************************************************************)
Repeat(ch, n) == [i \in 1..n |-> ch]

\* the results displayed: empty, short, more than half a line, more than a line
ResultStrings == {Repeat("x", n) : n \in {0, 1, 200, 400}}

ResultLists == UNION {[1..n -> ResultStrings] : n \in 0..MaxResults}

\* the users a handler responds to
Responders == {RealPrincipal(Amy, TRUE), RealPrincipal(Zoe, TRUE), InjectedPrincipal}

EmptyMessages == {<<"n", "o", "n", "e">>}

\* user.respond_lines(results, empty), the first call of a behaviour
RespondLines ==
    /\ unit = NoUnit
    /\ \E user \in Responders, results \in ResultLists, empty \in EmptyMessages :
          unit' = [fn |-> "respond_lines",
                   user |-> user,
                   results |-> results,
                   empty |-> empty,
                   lines |-> partition_response(results, RespondWidth, Separator, FALSE),
                   sent |-> respond_lines(user, results, empty)]
    /\ UNCHANGED <<session, supervisor, modules>>

NextRespond == RespondLines

SpecRespond == InitLoop /\ [][NextRespond]_vars

(***************************************************************************)
(* A poll (module/poll.rs): the options built by `!poll run`, the votes    *)
(* ActivePoll::peek takes from the messages it is shown, and the results   *)
(* of ActivePoll::close. The variable `unit` holds the poll.               *)
(***************************************************************************)
\* an option word, `keyword=description` or `keyword`, split at the first '='
PollOption(keyword, description) == [keyword |-> keyword, description |-> description]

\* options.insert(key.to_lowercase(), description) for every option word: a
\* later word with the same key replaces the earlier one
Poll_options(words) ==
    [key \in {Lower(words[i].keyword) : i \in 1..Len(words)} |->
        LET at == CHOOSE i \in 1..Len(words) :
                     /\ Lower(words[i].keyword) = key
                     /\ \A j \in 1..Len(words) : Lower(words[j].keyword) = key => j <= i
        IN words[at].description]

\* the ActivePoll that `!poll run` creates: nobody voted
ActivePoll(options) ==
    [fn |-> "poll", options |-> options, voted |-> {}, votes |-> EmptyMap,
     closed |-> FALSE, results |-> <<>>]

\* the first word of the message whose lowercase form is an option
RECURSIVE first_option(_, _)
first_option(options, m) ==
    IF m = <<>> THEN None
    ELSE IF Lower(Head(m)) \in DOMAIN options THEN Head(m)
    ELSE first_option(options, Tail(m))

\* `*inner.votes.entry(word.to_string()).or_default() += 1`
votes_entry_add(votes, word) ==
    IF word \in DOMAIN votes
    THEN [votes EXCEPT ![word] = @ + 1]
    ELSE votes @@ (word :> 1)

\* ActivePoll::peek
ActivePoll_peek(poll, user, m) ==
    IF user.principal # "User" THEN poll
    ELSE IF user.login \in poll.voted THEN poll
    ELSE LET word == first_option(poll.options, m)
         IN IF word = None THEN poll
            ELSE [poll EXCEPT !.votes = votes_entry_add(@, word),
                              !.voted = @ \cup {user.login}]

\* `inner.votes.get(o).cloned().unwrap_or_default()`
votes_get(votes, o) == IF o \in DOMAIN votes THEN votes[o] ELSE 0

\* the orders in which close can return the options: the most votes first,
\* options with as many votes in the order of the hash map
CloseOrders(poll) ==
    {order \in [1..Cardinality(DOMAIN poll.options) -> DOMAIN poll.options] :
        /\ \A i, j \in DOMAIN order : i # j => order[i] # order[j]
        /\ \A i, j \in DOMAIN order :
              i < j => votes_get(poll.votes, order[i]) >= votes_get(poll.votes, order[j])}

\* ActivePoll::close: for every option its description, or its key, and the
\* votes recorded under its key
ActivePoll_close(poll, order) ==
    [i \in DOMAIN order |->
        [label |-> IF poll.options[order[i]] = None THEN order[i]
                   ELSE poll.options[order[i]],
         votes |-> votes_get(poll.votes, order[i])]]

PollOptionLists ==
    {<<PollOption("yes", None), PollOption("no", None)>>,
     <<PollOption("Yes", "Yep"), PollOption("no", None), PollOption("YES", "Sure")>>}

PollUsers ==
    {RealPrincipal(Amy, TRUE), RealPrincipal(Bob, TRUE), RealPrincipal(Zoe, FALSE),
     InjectedPrincipal}

PollMessages ==
    {<<"yes">>, <<"YES">>, <<"i", "say", "no">>, <<"no", "yes">>, <<"maybe">>}

\* `!poll run`: the poll is created and inserted as a hook
PollRun ==
    /\ unit = NoUnit
    /\ \E words \in PollOptionLists : unit' = ActivePoll(Poll_options(words))
    /\ UNCHANGED <<session, supervisor, modules>>

\* the hook is shown a message
PollPeek ==
    /\ unit.fn = "poll"
    /\ ~unit.closed
    /\ \E user \in PollUsers, m \in PollMessages : unit' = ActivePoll_peek(unit, user, m)
    /\ UNCHANGED <<session, supervisor, modules>>

\* `!poll close`: the hook is removed and the results are taken
PollClose ==
    /\ unit.fn = "poll"
    /\ ~unit.closed
    /\ \E order \in CloseOrders(unit) :
          unit' = [unit EXCEPT !.closed = TRUE, !.results = ActivePoll_close(unit, order)]
    /\ UNCHANGED <<session, supervisor, modules>>

NextPoll ==
    \/ PollRun
    \/ PollPeek
    \/ PollClose

SpecPoll == InitLoop /\ [][NextPoll]_vars

(***************************************************************************)
(* The promotions (db/promotions.rs): the table of the database and the   *)
(* map Promotions keeps in memory, under Promotions::edit and              *)
(* Promotions::bump_promoted_at. The variable `unit` holds both, with the  *)
(* last call and the map as it was before it.                              *)
(***************************************************************************)
\* HashMap::insert and HashMap::remove
Map_insert(m, key, value) ==
    [k \in DOMAIN m \cup {key} |-> IF k = key THEN value ELSE m[k]]

Map_remove(m, key) == [k \in DOMAIN m \ {key} |-> m[k]]

\* Key::new: the channel and the lowercased name
Key_new(channel, name) == <<channel, Lower(name)>>

\* a promotion, as a row (db::models::Promotion) and in memory (Promotion):
\* the text is the source of the template; promoted_at is <<>> for None and
\* <<t>> for Some(t)
Promotion(frequency, promoted_at, text, disabled) ==
    [frequency |-> frequency, promoted_at |-> promoted_at, text |-> text,
     disabled |-> disabled]

\* Database::edit of the promotions: the row is inserted, or its text and
\* frequency are updated; it returns the row found, when it is not disabled
Promotions_db_edit(db, key, frequency, text) ==
    IF key \notin DOMAIN db
    THEN [db |-> Map_insert(db, key, Promotion(frequency, <<>>, text, FALSE)),
          ret |-> <<>>]
    ELSE [db |-> [db EXCEPT ![key].frequency = frequency, ![key].text = text],
          ret |-> IF db[key].disabled THEN <<>> ELSE <<db[key]>>]

\* Promotions::load: every promotion that db.list() returns
Promotions_load(db) ==
    [fn |-> "promotions", db |-> db,
     inner |-> [k \in {k \in DOMAIN db : ~db[k].disabled} |-> db[k]],
     call |-> "load", key |-> <<>>, now |-> <<>>, ret |-> "Ok", before |-> EmptyMap]

\* Promotions::edit; db_ok: the database call succeeds
Promotions_edit(p, channel, name, frequency, template, db_ok) ==
    LET key == Key_new(channel, name)
        r == Promotions_db_edit(p.db, key, frequency, template)
        q == [p EXCEPT !.call = "edit", !.key = key, !.now = <<>>, !.before = p.inner]
    IN IF ~db_ok THEN [q EXCEPT !.ret = "Database"]
       ELSE [q EXCEPT !.ret = "Ok",
                      !.db = r.db,
                      !.inner = IF r.ret # <<>>
                                THEN Map_insert(@, key,
                                        Promotion(frequency, r.ret[1].promoted_at,
                                                  template, r.ret[1].disabled))
                                ELSE Map_remove(@, key)]

\* Database::bump_promoted_at: the rows of the key are updated
Promotions_db_bump(db, key, now) ==
    IF key \in DOMAIN db THEN [db EXCEPT ![key].promoted_at = <<now>>] ELSE db

\* the end of Promotions::bump_promoted_at: the promotion taken from the map
\* is inserted again with promoted_at set
bump_reinsert(inner, key, promotion, now) ==
    Map_insert(inner, key, [promotion EXCEPT !.promoted_at = <<now>>])

\* Promotions::bump_promoted_at; db_ok: the database call succeeds
Promotions_bump_promoted_at(p, key, now, db_ok) ==
    LET q == [p EXCEPT !.call = "bump", !.key = key, !.now = <<now>>, !.before = p.inner]
        removed == Map_remove(p.inner, key)
    IN IF key \notin DOMAIN p.inner THEN [q EXCEPT !.ret = "Missing", !.inner = removed]
       ELSE IF ~db_ok THEN [q EXCEPT !.ret = "Database", !.inner = removed]
       ELSE [q EXCEPT !.ret = "Ok",
                      !.db = Promotions_db_bump(@, key, now),
                      !.inner = bump_reinsert(removed, key, p.inner[key], now)]

PromotionNames == {"ad", "AD", "tip"}
PromotionTexts == {"t1", "t2"}
PromotionFrequencies == {30, 60}
PromotionTimes == {1, 2}

\* the tables the bot starts with
PromotionTables ==
    {EmptyMap,
     (Key_new(Zoe, "ad") :> Promotion(30, <<>>, "t1", FALSE))
        @@ (Key_new(Zoe, "tip") :> Promotion(60, <<1>>, "t2", TRUE))}

PromotionsLoad ==
    /\ unit = NoUnit
    /\ \E db \in PromotionTables : unit' = Promotions_load(db)
    /\ UNCHANGED <<session, supervisor, modules>>

PromotionsEdit ==
    /\ unit.fn = "promotions"
    /\ \E name \in PromotionNames, frequency \in PromotionFrequencies,
          template \in PromotionTexts, db_ok \in BOOLEAN :
          unit' = Promotions_edit(unit, Zoe, name, frequency, template, db_ok)
    /\ UNCHANGED <<session, supervisor, modules>>

PromotionsBump ==
    /\ unit.fn = "promotions"
    /\ \E name \in PromotionNames, now \in PromotionTimes, db_ok \in BOOLEAN :
          unit' = Promotions_bump_promoted_at(unit, Key_new(Zoe, name), now, db_ok)
    /\ UNCHANGED <<session, supervisor, modules>>

NextPromotions ==
    \/ PromotionsLoad
    \/ PromotionsEdit
    \/ PromotionsBump

SpecPromotions == InitLoop /\ [][NextPromotions]_vars

(***************************************************************************)
(* The alias store (db/aliases.rs): the table of the database and the map  *)
(* Aliases keeps in memory, under Aliases::edit, delete and rename. The    *)
(* variable `unit` holds both, with the last call and both as they were    *)
(* before it. A row is kept under <<channel, name>>.                       *)
(***************************************************************************)
\* an alias, as a row (db::models::Alias) and in memory (Alias): the text is
\* the source of the template
AliasRow(text, disabled) == [text |-> text, disabled |-> disabled]

\* Database::edit of the aliases: the row is inserted, or its text updated;
\* it returns the row inserted or found, unless the row found is disabled
Aliases_db_edit(db, key, text) ==
    IF key \notin DOMAIN db
    THEN [db |-> Map_insert(db, key, AliasRow(text, FALSE)),
          ret |-> <<AliasRow(text, FALSE)>>]
    ELSE [db |-> [db EXCEPT ![key].text = text],
          ret |-> IF db[key].disabled THEN <<>> ELSE <<db[key]>>]

\* Database::delete of the aliases: whether one row was deleted
Aliases_db_delete(db, key) == [db |-> Map_remove(db, key), ret |-> key \in DOMAIN db]

\* What the statement of Database::rename does. It assigns the column `name`
\* twice, `name = to.name, name = to.channel`: a database that takes the
\* rightmost assignment names the row after the channel, and one that
\* rejects a column assigned twice fails; the channel column is not
\* assigned. A row that is already kept under the new key makes it fail.
RenameStatements == {"rightmost", "rejected"}

Aliases_db_rename(db, from, to, statement) ==
    LET named == <<from[1], to[1]>>
    IN IF statement = "rejected" THEN [db |-> db, ret |-> "Err"]
       ELSE IF from \notin DOMAIN db THEN [db |-> db, ret |-> "false"]
       ELSE IF named # from /\ named \in DOMAIN db THEN [db |-> db, ret |-> "Err"]
       ELSE [db |-> Map_insert(Map_remove(db, from), named, db[from]), ret |-> "true"]

\* Aliases::load: every alias that db.list() returns
Aliases_load(db) ==
    [fn |-> "aliases", db |-> db,
     inner |-> [k \in {k \in DOMAIN db : ~db[k].disabled} |-> db[k]],
     call |-> "load", key |-> <<>>, to |-> <<>>, ret |-> "Ok",
     before |-> EmptyMap, db_before |-> EmptyMap]

\* the call that starts: what it is, and the store as it finds it
Aliases_call(a, call, key, to) ==
    [a EXCEPT !.call = call, !.key = key, !.to = to,
              !.before = a.inner, !.db_before = a.db]

\* Aliases::edit; db_ok: the database call succeeds
Aliases_edit(a, channel, name, template, db_ok) ==
    LET key == Key_new(channel, name)
        r == Aliases_db_edit(a.db, key, template)
        q == Aliases_call(a, "edit", key, <<>>)
    IN IF ~db_ok THEN [q EXCEPT !.ret = "Err"]
       ELSE [q EXCEPT !.ret = "Ok",
                      !.db = r.db,
                      !.inner = IF r.ret # <<>>
                                THEN Map_insert(@, key,
                                                AliasRow(template, r.ret[1].disabled))
                                ELSE Map_remove(@, key)]

\* Aliases::delete
Aliases_delete(a, channel, name, db_ok) ==
    LET key == Key_new(channel, name)
        r == Aliases_db_delete(a.db, key)
        q == Aliases_call(a, "delete", key, <<>>)
    IN IF ~db_ok THEN [q EXCEPT !.ret = "Err"]
       ELSE IF ~r.ret THEN [q EXCEPT !.ret = "false"]
       ELSE [q EXCEPT !.ret = "true", !.db = r.db, !.inner = Map_remove(@, key)]

\* the two tests of Aliases::rename on the map in memory
rename_refused(inner, from_key, to_key) ==
    IF to_key \in DOMAIN inner THEN "Conflict"
    ELSE IF from_key \notin DOMAIN inner THEN "Missing"
    ELSE None

\* Aliases::rename: the result of the database is logged, and the alias is
\* kept in memory under the new key whatever it was
Aliases_rename(a, channel, from, to, statement) ==
    LET from_key == Key_new(channel, from)
        to_key == Key_new(channel, to)
        refused == rename_refused(a.inner, from_key, to_key)
        r == Aliases_db_rename(a.db, from_key, to_key, statement)
        q == Aliases_call(a, "rename", from_key, to_key)
    IN IF refused # None THEN [q EXCEPT !.ret = refused]
       ELSE [q EXCEPT !.ret = "Ok",
                      !.db = r.db,
                      !.inner = Map_insert(Map_remove(@, from_key), to_key,
                                           a.inner[from_key])]

AliasChannel == "#zoe"
AliasNames == {"!a", "!A", "!b"}
AliasTexts == {"x", "y"}

\* the tables the bot starts with
AliasRows ==
    {EmptyMap,
     (Key_new(AliasChannel, "!a") :> AliasRow("x", FALSE))
        @@ (Key_new(AliasChannel, "!b") :> AliasRow("y", TRUE))}

AliasesLoad ==
    /\ unit = NoUnit
    /\ \E db \in AliasRows : unit' = Aliases_load(db)
    /\ UNCHANGED <<session, supervisor, modules>>

AliasesEdit ==
    /\ unit.fn = "aliases"
    /\ \E name \in AliasNames, template \in AliasTexts, db_ok \in BOOLEAN :
          unit' = Aliases_edit(unit, AliasChannel, name, template, db_ok)
    /\ UNCHANGED <<session, supervisor, modules>>

AliasesDelete ==
    /\ unit.fn = "aliases"
    /\ \E name \in AliasNames, db_ok \in BOOLEAN :
          unit' = Aliases_delete(unit, AliasChannel, name, db_ok)
    /\ UNCHANGED <<session, supervisor, modules>>

AliasesRename ==
    /\ unit.fn = "aliases"
    /\ \E from \in AliasNames, to \in AliasNames, statement \in RenameStatements :
          unit' = Aliases_rename(unit, AliasChannel, from, to, statement)
    /\ UNCHANGED <<session, supervisor, modules>>

NextAliases ==
    \/ AliasesLoad
    \/ AliasesEdit
    \/ AliasesDelete
    \/ AliasesRename

SpecAliases == InitLoop /\ [][NextAliases]_vars

(***************************************************************************)
(* The theme store (db/themes.rs) under concurrent calls on one theme.     *)
(* Themes::edit takes the write lock of the map, calls the database and    *)
(* writes the map; Themes::edit_duration calls the database first and      *)
(* takes the lock afterwards. A call of the database runs as one closure   *)
(* on the connection. The variable `unit` holds the row of the theme, its  *)
(* entry in the map (each <<>> when absent), the holder of the lock (0:    *)
(* nobody), the calls, and whether the row existed when the map was        *)
(* loaded.                                                                 *)
(***************************************************************************)
\* a theme, as a row (db::models::Theme) and in memory (Theme); end is <<>>
\* for None and <<n>> for Some(n)
Theme(track_id, start, end, disabled) ==
    [track_id |-> track_id, start |-> start, end |-> end, disabled |-> disabled]

\* Database::edit of the themes: the row is inserted with start 0 and no
\* end, or its track is updated; it returns the row inserted or found,
\* unless the row found is disabled
Themes_db_edit(db, track_id) ==
    IF db = <<>>
    THEN [db |-> <<Theme(track_id, 0, <<>>, FALSE)>>,
          ret |-> <<Theme(track_id, 0, <<>>, FALSE)>>]
    ELSE [db |-> <<[db[1] EXCEPT !.track_id = track_id]>>,
          ret |-> IF db[1].disabled THEN <<>> ELSE db]

\* Database::edit_duration
Themes_db_edit_duration(db, start, end) ==
    IF db = <<>> THEN db ELSE <<[db[1] EXCEPT !.start = start, !.end = end]>>

\* Themes::load
Themes_load(db) ==
    [fn |-> "themes", db |-> db,
     inner |-> IF db # <<>> /\ ~db[1].disabled THEN db ELSE <<>>,
     lock |-> 0, calls |-> <<>>, existed |-> db # <<>>]

\* a call that was made: its arguments, where it is ("start", "locked",
\* "db", "done"), what the database returned to it, how it ended
EditCall(track_id) ==
    [kind |-> "edit", track_id |-> track_id, start |-> 0, end |-> <<>>,
     pc |-> "start", found |-> <<>>, ret |-> None]

DurationCall(start, end) ==
    [kind |-> "edit_duration", track_id |-> None, start |-> start, end |-> end,
     pc |-> "start", found |-> <<>>, ret |-> None]

\* Themes::edit, `self.inner.write().await`
Themes_edit_lock(t, i) ==
    [t EXCEPT !.lock = i, !.calls[i].pc = "locked"]

\* Themes::edit, `self.db.edit(&key, &track_id).await?`: an error returns
\* and drops the lock
Themes_edit_db(t, i, db_ok) ==
    LET r == Themes_db_edit(t.db, t.calls[i].track_id)
    IN IF ~db_ok
       THEN [t EXCEPT !.lock = 0, !.calls[i].pc = "done", !.calls[i].ret = "Err"]
       ELSE [t EXCEPT !.db = r.db, !.calls[i].found = r.ret, !.calls[i].pc = "db"]

\* Themes::edit, the rest: the entry is written with the track of the call
\* and the start and end of the row returned, or removed; the lock is
\* dropped
Themes_edit_insert(t, i) ==
    LET c == t.calls[i]
    IN [t EXCEPT !.inner = IF c.found # <<>>
                           THEN <<Theme(c.track_id, c.found[1].start, c.found[1].end,
                                        c.found[1].disabled)>>
                           ELSE <<>>,
                 !.lock = 0, !.calls[i].pc = "done", !.calls[i].ret = "Ok"]

\* Themes::edit_duration, `self.db.edit_duration(..).await?`
Themes_edit_duration_db(t, i, db_ok) ==
    IF ~db_ok
    THEN [t EXCEPT !.calls[i].pc = "done", !.calls[i].ret = "Err"]
    ELSE [t EXCEPT !.db = Themes_db_edit_duration(@, t.calls[i].start, t.calls[i].end),
                   !.calls[i].pc = "db"]

\* Themes::edit_duration, the rest: under the lock, the start and end of the
\* entry are written when the map holds the theme
Themes_edit_duration_update(t, i) ==
    [t EXCEPT !.inner = IF @ = <<>> THEN @
                        ELSE <<[@[1] EXCEPT !.start = t.calls[i].start,
                                            !.end = t.calls[i].end]>>,
              !.calls[i].pc = "done", !.calls[i].ret = "Ok"]

ThemeRows == {<<>>, <<Theme("t0", 0, <<>>, FALSE)>>, <<Theme("t0", 7, <<9>>, TRUE)>>}

ThemeCalls ==
    {EditCall("t1"), EditCall("t2"), DurationCall(1, <<>>), DurationCall(2, <<5>>)}

ThemesLoad ==
    /\ unit = NoUnit
    /\ \E db \in ThemeRows : unit' = Themes_load(db)
    /\ UNCHANGED <<session, supervisor, modules>>

\* a task calls Themes::edit or Themes::edit_duration
ThemesCall ==
    /\ unit.fn = "themes"
    /\ Len(unit.calls) < MaxCalls
    /\ \E c \in ThemeCalls : unit' = [unit EXCEPT !.calls = Append(@, c)]
    /\ UNCHANGED <<session, supervisor, modules>>

ThemesEditLock ==
    /\ unit.fn = "themes"
    /\ unit.lock = 0
    /\ \E i \in DOMAIN unit.calls :
          /\ unit.calls[i].kind = "edit" /\ unit.calls[i].pc = "start"
          /\ unit' = Themes_edit_lock(unit, i)
    /\ UNCHANGED <<session, supervisor, modules>>

ThemesEditDb ==
    /\ unit.fn = "themes"
    /\ \E i \in DOMAIN unit.calls, db_ok \in BOOLEAN :
          /\ unit.calls[i].kind = "edit" /\ unit.calls[i].pc = "locked"
          /\ unit' = Themes_edit_db(unit, i, db_ok)
    /\ UNCHANGED <<session, supervisor, modules>>

ThemesEditInsert ==
    /\ unit.fn = "themes"
    /\ \E i \in DOMAIN unit.calls :
          /\ unit.calls[i].kind = "edit" /\ unit.calls[i].pc = "db"
          /\ unit' = Themes_edit_insert(unit, i)
    /\ UNCHANGED <<session, supervisor, modules>>

ThemesDurationDb ==
    /\ unit.fn = "themes"
    /\ \E i \in DOMAIN unit.calls, db_ok \in BOOLEAN :
          /\ unit.calls[i].kind = "edit_duration" /\ unit.calls[i].pc = "start"
          /\ unit' = Themes_edit_duration_db(unit, i, db_ok)
    /\ UNCHANGED <<session, supervisor, modules>>

ThemesDurationUpdate ==
    /\ unit.fn = "themes"
    /\ unit.lock = 0
    /\ \E i \in DOMAIN unit.calls :
          /\ unit.calls[i].kind = "edit_duration" /\ unit.calls[i].pc = "db"
          /\ unit' = Themes_edit_duration_update(unit, i)
    /\ UNCHANGED <<session, supervisor, modules>>

NextThemes ==
    \/ ThemesLoad
    \/ ThemesCall
    \/ ThemesEditLock
    \/ ThemesEditDb
    \/ ThemesEditInsert
    \/ ThemesDurationDb
    \/ ThemesDurationUpdate

SpecThemes == InitLoop /\ [][NextThemes]_vars

(***************************************************************************)
(* Properties.                                                             *)
(***************************************************************************)
\* the last step dispatched a message: a chat line or an injected command
Dispatch == last.ev \in {"privmsg", "raw"}

RefusalTexts ==
    {"You are not allowed to run that command", "Do you think this is a democracy? LUL"}

\* the refusals among the responses of the last step
Refusals == {i \in 1..Len(last.sent) : last.sent[i].text \in RefusalTexts}

\* the scope of the handler the last dispatch resolved is not granted to
\* any role of its caller
Ungranted ==
    /\ Dispatch
    /\ last.resolved # None
    /\ Handler_scope(last.resolved) # None
    /\ ~Auth_test_any(Handler_scope(last.resolved),
                      User_roles(last.user, moderators, vips))

\* C1: when an explicit command resolves to a handler with a required scope
\* and no role of the caller is granted that scope, the dispatch sends
\* exactly one refusal, spawns and calls nothing, and the refusal is the
\* moderator's text exactly when the caller is a moderator (the two texts
\* differ).
C1_RefusedNeverExecuted ==
    Ungranted =>
        /\ last.spawned = None
        /\ last.called = None
        /\ Cardinality(Refusals) = 1
        /\ \A i \in Refusals :
              /\ last.sent[i].to = User_display_name(last.user)
              /\ (last.sent[i].text = "You are not allowed to run that command")
                     <=> User_is_moderator(last.user, moderators)
              /\ (last.sent[i].text = "Do you think this is a democracy? LUL")
                     <=> ~User_is_moderator(last.user, moderators)

\* a moderator without the scope of the poll handler was refused
C1_Witness ==
    /\ Ungranted
    /\ last.resolved = "poll"
    /\ last.user.login = Amy
    /\ Amy \in moderators
    /\ \E i \in Refusals :
          last.sent[i] = User_respond(last.user, "You are not allowed to run that command")
    /\ last.spawned = None

\* C2: a raw command injected through the command bus that names a
\* registered handler has the handler executed and is sent no refusal,
\* whatever scope the handler requires.
C2_InjectedBypassesAuthorization ==
    (last.ev = "raw" /\ last.resolved \in HandlerNames /\ last.logged = None)
        => (last.spawned = last.resolved /\ Refusals = {})

\* the injected `!poll run` was refused and the poll handler not spawned
C2_Witness ==
    /\ last.ev = "raw"
    /\ last.text = <<"!poll", "run">>
    /\ last.resolved = "poll"
    /\ last.spawned = None
    /\ Cardinality(Refusals) = 1

NoRepetition(path) == \A i, j \in 1..Len(path) : i # j => path[i] # path[j]

\* the names of the path are in match order: the first matches the message
\* and each next one matches the rendering of the alias before it
MatchOrder(text, path) ==
    /\ path # <<>> => (text # <<>> /\ path[1] = Lower(Head(text)))
    /\ \A i \in 1..(Len(path) - 1) :
          LET template == aliases.map[<<StreamerLogin, path[i]>>]
          IN template.body # <<>> /\ path[i + 1] = Lower(Head(template.body))

\* C3: the alias expansion of a dispatched message ends, either with no
\* alias matching the final text, the matched names without repetition and
\* the processing continued on that text, or with a name matched a second
\* time, the expansion aborted and the path reported to the user holding
\* that name at its first and at its repeated (last) position, in match
\* order.
C3_AliasExpansionTerminates ==
    Dispatch =>
        /\ last.outcome \in {"done", "cycle"}
        /\ MatchOrder(last.text, last.path)
        /\ last.outcome = "done" =>
              /\ NoRepetition(last.path)
              /\ aliases.present =>
                    Aliases_resolve(aliases.map, StreamerLogin, last.message) = NoMatch
              /\ ~aliases.present => (last.message = last.text /\ last.path = <<>>)
              /\ (last.logged = None /\ last.message # <<>> /\ commands.present)
                    => last.table = Commands_resolve(commands, Head(last.message))
        /\ last.outcome = "cycle" =>
              /\ Len(last.path) >= 2
              /\ NoRepetition(SubSeq(last.path, 1, Len(last.path) - 1))
              /\ \E i \in 1..(Len(last.path) - 1) : last.path[i] = last.path[Len(last.path)]
              /\ last.sent = <<CycleReport(last.user, last.path)>>
              /\ last.table = None /\ last.resolved = None
              /\ last.spawned = None /\ last.called = None /\ ~last.deleted

\* the chain !a -> !b -> !a was followed and reported
C3_Witness ==
    /\ Dispatch
    /\ last.outcome = "cycle"
    /\ last.path = <<"!a", "!b", "!a">>
    /\ last.sent = <<CycleReport(last.user, <<"!a", "!b", "!a">>)>>

\* C4: when the pong-timeout fuse fires the session ends with the error
\* "server not responding", and only a probe that was never answered ends
\* it so; handling a PONG clears the fuse, and a probe that was answered
\* leaves no fuse running.
C4_PongTimeoutEndsSession ==
    /\ last.ev = "pong_timeout" =>
          (pc = "done" /\ result = "Err" /\ error = "server not responding")
    /\ error = "server not responding" => probe = "sent"
    /\ last.ev = "PONG" => pong_timeout = "empty"
    /\ probe = "answered" => pong_timeout = "empty"
    /\ pong_timeout = "armed" => probe = "sent"

\* a probe was sent, no PONG was handled and the fuse ended the session
C4_Witness ==
    /\ last.ev = "pong_timeout"
    /\ probe = "sent"
    /\ result = "Err"
    /\ error = "server not responding"

\* the snapshot of the command table with this number: the table of the
\* start of the session, or the one delivered as the ver-th update
SnapshotOf(ver) == IF ver = 0 THEN InitialCommands ELSE delivered[ver].snapshot

\* the table-driven command the snapshot resolves for the message
ResolvedIn(snapshot, message) ==
    IF snapshot.present /\ message # <<>>
    THEN Commands_resolve(snapshot, Head(message))
    ELSE None

\* C5 as stated: when two updates of the command table were delivered
\* before any message was dispatched, a message dispatched after them is
\* resolved against the second snapshot.
C5_SecondSnapshotOnly ==
    (Dispatch /\ last.latest = 2 /\ delivered[1].quiet /\ delivered[2].quiet)
        => last.ver = 2

\* C5 as amended: every dispatch is resolved against exactly one snapshot,
\* the one the loop received last: the number of the snapshot in use is the
\* number of snapshots delivered less those still queued on the stream (so
\* it is the latest one once none is queued), and the command resolved is
\* the one that snapshot resolves.
C5_DispatchUsesLastReceived ==
    Dispatch =>
        /\ last.ver = last.latest - last.pending
        /\ last.pending = 0 => last.ver = last.latest
        /\ last.outcome = "done" =>
              last.table = ResolvedIn(SnapshotOf(last.ver), last.message)

\* two updates were delivered and received before the first message, which
\* resolved against the second: `!poll` is a command of the first table only
C5_Witness ==
    /\ Dispatch
    /\ last.latest = 2 /\ last.pending = 0 /\ last.ver = 2
    /\ delivered[1].quiet /\ delivered[2].quiet
    /\ last.text = <<"!poll", "run">>
    /\ last.table = None

\* C6 as stated: the loop returns an error only for a liveness failure, the
\* end of the outgoing task or an authentication-failure notice.
C6_OnlyReconnectErrorsEndLoop ==
    result = "Err" =>
        error \in {"server not responding", "outgoing future ended unexpectedly",
                   "handler forcibly shut down"}

\* C6 as amended: the loop returns an error only for those three, a
\* receive error of the command bus, a failed chat-log update or a read
\* error of the client stream; a component future that ends (with an error
\* or not) ends the session with Ok; every error of handling a line, a raw
\* command or a script filesystem event is logged and the loop keeps
\* running.
C6_ErrorsThatEndLoop ==
    /\ result = "Err" =>
          error \in {"server not responding", "outgoing future ended unexpectedly",
                     "handler forcibly shut down", "command bus receive failed",
                     "chat log update failed", "client stream failed"}
    /\ last.ev = "future" => (pc = "done" /\ result = "Ok")
    /\ last.logged # None => (pc = "select" /\ result = "none")

\* a chat line failed to be handled and the loop goes on
C6_Witness ==
    /\ last.ev = "privmsg"
    /\ last.logged = "Failed to handle message"
    /\ pc = "select"
    /\ result = "none"

\* C7: once a notice of a failed login authentication is handled the
\* session has ended with an error.
C7_AuthFailureEndsSession ==
    last.ev = "notice_auth" => (pc = "done" /\ result = "Err")

\* the notice was handled, the forced refresh failed, the session goes on
C7_Witness ==
    /\ last.ev = "notice_auth"
    /\ ~last.refreshed
    /\ ~handler_shutdown
    /\ pc = "select"
    /\ result = "none"

\* C8 as stated: once the leave fuse is armed the session ends with Ok.
C8_LeaveEndsWithOk == (leave = "armed" /\ pc = "done") => result = "Ok"

\* C8 as amended: once armed the leave fuse is never cleared, the loop
\* services nothing but the fuse and the outgoing task, and the session
\* ends with Ok when the fuse fires unless the outgoing task ends first,
\* which ends it with the error of that task.
C8_LeaveNeverCanceled ==
    /\ [](/\ pc = "drain" => leave = "armed"
          /\ leave = "armed" => pc \in {"drain", "done"}
          /\ (leave = "armed" /\ pc = "done") =>
                \/ result = "Ok" /\ last.ev \in {"leave", "task"}
                \/ result = "Err" /\ error = "outgoing future ended unexpectedly")
    /\ [][leave = "armed" => leave' = "armed"]_vars

\* the fuse was armed, fired, and the session ended with Ok
C8_Witness == leave = "armed" /\ pc = "done" /\ result = "Ok" /\ last.ev = "leave"

\* C9: while a resolved handler executes, a spawned handler or a script,
\* the loop is not waiting for it.
C9_HandlersNeverBlockLoop ==
    (BagCardinality(tasks) > 0 \/ script_call # NoCall) => pc # "script"

\* the loop is awaiting the call of the script `song`
C9_Witness ==
    /\ pc = "script"
    /\ script_call.called = "song"
    /\ script_call.spawned = None
    /\ BagCardinality(tasks) = 0

\* the responses of the last step that are the generic apology
Apologies ==
    {i \in 1..Len(last.sent) : last.sent[i].text = "Sorry, something went wrong :("}

\* a spawned handler task ends in this step
TaskEnds == BagCardinality(tasks') < BagCardinality(tasks)

CommandName ==
    IF last.message # <<>> THEN StripBang(Head(last.message)) ELSE None

\* the last dispatch went as far as the explicit command
Commanded ==
    /\ Dispatch
    /\ last.outcome = "done"
    /\ last.logged = None
    /\ CommandName # None

\* the tiers the last dispatch invoked or answered for
TiersOf ==
    (IF last.ping THEN {"ping"} ELSE {})
        \cup (IF last.resolved = "currency" THEN {"currency"} ELSE {})
        \cup (IF last.resolved \in HandlerNames THEN {"registry"} ELSE {})
        \cup (IF last.called # None THEN {"script"} ELSE {})

\* C11: the explicit command of a message selects at most one tier, the
\* first that has the name in the order ping, currency (when the name is
\* the currency's), registry, scripts; no tier after it is invoked, also
\* when the selected handler refuses the caller.
C11_TierPriority ==
    Commanded =>
        /\ Cardinality(TiersOf) <= 1
        /\ last.spawned # None => last.spawned = last.resolved
        /\ last.called # None => last.called = last.resolved
        /\ TiersOf =
              IF CommandName = "ping" THEN {"ping"}
              ELSE IF last.currency # None /\ CommandName = last.currency
              THEN {"currency"}
              ELSE IF CommandName \in HandlerNames THEN {"registry"}
              ELSE IF CommandName \in scripts THEN {"script"}
              ELSE {}
        /\ (last.resolved # None /\ CommandName # "ping")
              => (last.resolved = "currency" \/ last.resolved = CommandName)

\* `!poll` while the currency is named poll and a script poll is loaded:
\* the currency handler was spawned, the poll handler and the script not
C11_Witness ==
    /\ Commanded
    /\ CommandName = "poll"
    /\ last.currency = "poll"
    /\ "poll" \in scripts
    /\ last.resolved = "currency"
    /\ last.spawned = "currency"
    /\ last.called = None

\* the handler the explicit command of the last dispatch names, if any
NamedHandler == select_handler(CommandName, last.currency)

\* the caller of the last dispatch is authorized for the handler it names:
\* the handler requires no scope, or a role of the sender of the chat line
\* is granted the scope
Authorized ==
    /\ NamedHandler # None
    /\ \/ Handler_scope(NamedHandler) = None
       \/ /\ last.ev = "privmsg"
          /\ Auth_test_any(Handler_scope(NamedHandler),
                           User_roles(last.user, moderators, vips))

Moderated ==
    /\ last.ev \in {"privmsg", "script_return"}
    /\ last.user.principal = "User"
    /\ last.outcome = "done"
    /\ last.logged = None

\* the responses of the last step that explain a deletion
Explanations ==
    {i \in 1..Len(last.sent) : last.sent[i].text = "bad word explanation"}

\* C13: a chat message whose sender is in the moderator set or is the
\* channel owner is not deleted and is sent no explanation, whatever the
\* toggles of the filter are.
C13_ModeratorsAndStreamerExempt ==
    (Moderated /\ (last.user.login \in moderators \/ last.user.login = StreamerLogin))
        => (~last.deleted /\ Explanations = {})

\* a message of the channel owner was deleted and explained
C13_Witness ==
    /\ Moderated
    /\ last.user.login = StreamerLogin
    /\ last.user.login \notin moderators
    /\ last.text = <<"darn">>
    /\ last.deleted
    /\ Explanations # {}

(***************************************************************************)
(* The supervisor                                                          *)
(***************************************************************************)
RECURSIVE Pow(_, _)
Pow(b, n) == IF n = 0 THEN 1 ELSE b * Pow(b, n - 1)

\* the interval of the k-th consecutive failure: five seconds times 1.5 per
\* earlier failure, sixty seconds from the eighth failure on
Schedule(k) ==
    IF k >= 8 THEN from_secs(60) ELSE (from_secs(5) * Pow(3, k - 1)) \div Pow(2, k - 1)

\* C14 as stated: the delay slept after a session that ended with Err is never
\* below five seconds and never below the delay of the failure before it, the
\* next session after an Err starts after the sleep, and the next session
\* after an Ok starts without one, the schedule being reset.
C14_DelayAtLeastFiveSecondsAndGrowing ==
    /\ history.last_result = "Err" =>
          /\ history.delay >= from_secs(5)
          /\ history.streak >= 2 => history.delay >= history.prev
    /\ sup_pc = "session" /\ history.last_result = "Err" => history.slept
    /\ history.last_result = "Ok" =>
          ~history.slept /\ error_backoff.current_interval = from_secs(5)

\* C14 amended: the delay slept after the k-th consecutive failure lies within
\* one half of the k-th interval of the schedule around it (the interval is
\* 5 s times 1.5 per earlier failure, at most 60 s), the next session starts
\* only after that sleep, and an Ok puts the schedule back to its first
\* interval and is followed by the next session without a sleep.
C14_BackoffSchedule ==
    /\ error_backoff.current_interval = Schedule(history.streak + 1)
    /\ history.last_result = "Err" =>
          /\ history.streak >= 1
          /\ 2 * history.delay >= Schedule(history.streak)
          /\ 2 * history.delay <= 3 * Schedule(history.streak)
          /\ sup_pc = "session" => history.slept
          /\ sup_pc = "build" => history.slept
    /\ history.last_result = "Ok" =>
          /\ history.streak = 0
          /\ ~history.slept
          /\ sup_pc # "sleep"

\* a session started after the sleep that followed a failure of a streak long
\* enough to have reached the largest interval, the delay slept being shorter
\* than the one before it
C14_Witness ==
    /\ sup_pc = "session"
    /\ history.last_result = "Err"
    /\ history.slept
    /\ history.streak >= 8
    /\ history.delay < history.prev
    /\ error_backoff.current_interval = from_secs(60)

\* C15: a session is only ever run on a setup built from a usable snapshot;
\* while the snapshot is unusable the supervisor sits in provider.wait(), so
\* that no more than one build gives nothing between two notifications of an
\* update; and never more than one session is running.
C15_NoSessionWithoutSetup ==
    /\ sup_pc = "session" => history.setup = "Setup"
    /\ history.setup = "Setup" => sup_pc = "session"
    /\ history.idle_builds <= 1
    /\ sup_pc = "wait" /\ ~provider.updated => history.idle_builds = 1
    /\ history.sessions <= 1
    /\ history.sessions = 1 <=> sup_pc = "session"

\* the supervisor blocked in provider.wait() on an unusable snapshot after a
\* session that ended with Ok, one build having given nothing
C15_Witness ==
    /\ sup_pc = "wait"
    /\ ~provider.usable
    /\ ~provider.updated
    /\ history.idle_builds = 1
    /\ history.last_result = "Ok"

(***************************************************************************)
(* parse_room_members                                                      *)
(***************************************************************************)
\* the names after the first colon as C16 gives them: split on commas, each
\* trimmed, the empty ones dropped
NamesAfterColon(message) ==
    LET index == str_find(message, ":", 1)
        pieces == str_split(SubSeq(message, index + 1, Len(message)), ",")
    IN IF index = 0 THEN {}
       ELSE {str_trim(pieces[i]) : i \in 1..Len(pieces)} \ {<<>>}

Parsed == unit.fn = "parse_room_members"

\* the entries of a list that are names
NamesOf(names) == {names[i] : i \in 1..Len(names)} \ {<<>>}

\* no entry of the list holds a period
NoPeriod(names) == \A i \in 1..Len(names) : str_find(names[i], ".", 1) = 0

\* C16 as stated: the result is the set of the entries after the first colon,
\* split on commas, trimmed, the empty ones dropped; it is the same for every
\* order of the entries and for a second parse, and empty when there is no
\* name after the colon.
C16_NamesAfterFirstColon ==
    Parsed =>
        /\ unit.members = NamesAfterColon(unit.message)
        /\ unit.members_reordered = unit.members
        /\ unit.again = unit.members
        /\ NamesOf(unit.names) = {} => unit.members = {}

\* C16 amended: the periods at the end of the notice are removed before the
\* split, so that for names that hold no period the result is the set of the
\* names after the first colon whatever their order, spacing and the period at
\* the end; it is empty when there is no colon or no name, and a second parse
\* gives the same set.
C16_MembersOfNotice ==
    Parsed =>
        /\ unit.again = unit.members
        /\ ~unit.colon => unit.members = {}
        /\ NoPeriod(unit.names) =>
              /\ unit.colon => unit.members = NamesOf(unit.names)
              /\ unit.members_reordered = unit.members

\* a notice with two names and a period at its end, parsed in both orders
C16_Witness ==
    /\ Parsed
    /\ unit.colon
    /\ NoPeriod(unit.names)
    /\ unit.reordered # unit.message
    /\ unit.message[Len(unit.message)] = "."
    /\ Cardinality(unit.members) = 2
    /\ unit.members_reordered = unit.members

(***************************************************************************)
(* partition_response                                                      *)
(***************************************************************************)
Partitioned == unit.fn = "partition_response"

\* the items joined by the separator
Joined == join(unit.items, unit.sep)

\* the join of the items is no longer than the width
FitsOneLine == Partitioned /\ String_len(Joined) <= unit.width

\* C17 as stated: items whose join is no longer than the width give exactly
\* one line, the join.
C17_OneLineEqualToJoin ==
    FitsOneLine => Len(unit.lines) = 1 /\ unit.lines[1].line = Joined

\* C17 amended: items whose join is not empty and takes no more bytes than
\* the width give exactly one line, the join, uncut; items whose join is
\* empty (no item, or one empty item) give no line.
C17_OneLineUnlessEmpty ==
    FitsOneLine =>
        IF Joined = <<>>
        THEN unit.lines = <<>>
        ELSE /\ Len(unit.lines) = 1
             /\ unit.lines[1].line = Joined
             /\ ~unit.lines[1].forced
             /\ ~unit.lines[1].panic

\* two items, one with a character of two bytes, whose join takes exactly
\* the width and is the one line
C17_Witness ==
    /\ FitsOneLine
    /\ Len(unit.items) = 2
    /\ \E i \in 1..Len(Joined) : Joined[i] = Wide
    /\ String_len(Joined) = unit.width
    /\ Len(unit.lines) = 1
    /\ unit.lines[1].line = Joined

\* the lines that are an item cut to the width
ForcedLines == {i \in 1..Len(unit.lines) : unit.lines[i].forced}

\* C18: an item wider than the width that starts a line comes out as a line
\* of exactly `width` characters, a prefix of the item cut at a character
\* boundary and followed by the ellipsis; and only an item wider than the
\* width is ever cut.
C18_CutToWidthOnlyWhenWider ==
    Partitioned =>
        /\ \A i \in 1..Len(unit.lines) : ~unit.lines[i].panic
        /\ \A i \in ForcedLines :
              LET l == unit.lines[i]
              IN /\ String_len(l.item) > unit.width
                 /\ Len(l.line) = unit.width
                 /\ is_char_boundary(l.item, l.index)
                 /\ l.line = slice_to(l.item, l.index) \o TAIL
        /\ unit.items # <<>> /\ String_len(unit.items[1]) > unit.width =>
              /\ unit.lines # <<>>
              /\ unit.lines[1].forced
              /\ unit.lines[1].item = unit.items[1]

\* an empty item followed by an item that fits within the width, which comes
\* out cut and followed by the ellipsis
C18_Witness ==
    /\ Partitioned
    /\ unit.width >= Len(TAIL)
    /\ Len(unit.items) = 2
    /\ unit.items[1] = <<>>
    /\ String_len(unit.items[2]) <= unit.width
    /\ Len(unit.lines) = 1
    /\ unit.lines[1].forced
    /\ unit.lines[1].item = unit.items[2]
    /\ Len(unit.lines[1].line) < Len(unit.items[2]) + Len(TAIL)

(***************************************************************************)
(* respond_lines                                                           *)
(***************************************************************************)
Responded == unit.fn = "respond_lines"

\* the text "... N line(s) not shown" that follows the first line
NotShown(n) ==
    <<".", ".", ".", " ">> \o to_string(n)
        \o <<" ", "l", "i", "n", "e", "(", "s", ")", " ",
             "n", "o", "t", " ", "s", "h", "o", "w", "n">>

\* C19: respond_lines sends exactly one response, to the user: the empty
\* message when the results give no line, the first line as it is when it is
\* the only one, and else the first line followed by "... N line(s) not
\* shown", N being the number of the lines after the first.
C19_OneResponse ==
    Responded =>
        /\ Len(unit.sent) = 1
        /\ unit.sent[1].to = User_display_name(unit.user)
        /\ unit.sent[1].text =
              IF unit.lines = <<>> THEN unit.empty
              ELSE IF Len(unit.lines) = 1 THEN unit.lines[1].line
              ELSE unit.lines[1].line \o <<" ">> \o NotShown(Len(unit.lines) - 1)

\* results that give three lines, answered with the first line and the
\* number two
C19_Witness ==
    /\ Responded
    /\ Len(unit.lines) = 3
    /\ Len(unit.sent) = 1
    /\ unit.sent[1].text = unit.lines[1].line \o <<" ">> \o NotShown(2)

\* results that give no line, answered with the empty message
C19_WitnessEmpty ==
    /\ Responded
    /\ unit.results # <<>>
    /\ unit.lines = <<>>
    /\ unit.sent[1].text = unit.empty

(***************************************************************************)
(* The ping command                                                        *)
(***************************************************************************)
\* the responses "What do you want?" of the last step
PingResponses == {i \in 1..Len(last.sent) : last.sent[i].text = "What do you want?"}

\* C20: a dispatch of `!ping`, whatever the roles of its sender, the names
\* of the currency, of the handlers and of the loaded scripts, answers "What
\* do you want?" to the sender once and sends the ping on the global bus; it
\* looks up no handler, refuses nothing, spawns no handler and calls no
\* script.
C20_PingNeedsNoScope ==
    (Commanded /\ CommandName = "ping") =>
        /\ Cardinality(PingResponses) = 1
        /\ \A i \in PingResponses : last.sent[i].to = User_display_name(last.user)
        /\ last.ping
        /\ Refusals = {}
        /\ last.resolved = None
        /\ last.spawned = None
        /\ last.called = None

\* `!ping` from Amy while she is neither the streamer nor a moderator, a
\* subscriber or a VIP, the currency is named ping and a script ping is loaded
C20_Witness ==
    /\ Commanded
    /\ CommandName = "ping"
    /\ last.ev = "privmsg"
    /\ last.user.login = Amy
    /\ User_roles(last.user, moderators, vips) = {"Everyone"}
    /\ last.currency = "ping"
    /\ "ping" \in scripts
    /\ last.ping
    /\ PingResponses # {}

\* the last step dispatched `!theme edit foo bar` of a chat user to whom the
\* theme-edit scope is not granted
ThemeEditUngranted ==
    /\ last.ev = "privmsg"
    /\ last.message = <<"!theme", "edit", "foo", "bar">>
    /\ ~User_has_scope(last.user, "ThemeEdit", moderators, vips)

\* the last step ran the theme handler on an `edit` of a user to whom the
\* theme-edit scope is not granted
ThemeEditRefused ==
    /\ last.ev = "task"
    /\ last.resolved = "theme"
    /\ last.message # <<>>
    /\ Head(last.message) = "edit"
    /\ ~User_has_scope(last.user, "ThemeEdit", moderators, vips)

\* C21 as stated: `!theme edit foo bar` of a user lacking the theme-edit
\* scope is refused by the dispatch and the theme handler is never called.
C21_RefusedWithoutCallingHandler ==
    ThemeEditUngranted =>
        /\ Cardinality(Refusals) = 1
        /\ last.spawned = None

\* C21: `!theme edit foo bar` of a user lacking the theme-edit scope is not
\* refused by the dispatch, which spawns the theme handler; the handler, run
\* for a user who lacks the scope, sends exactly one refusal and nothing
\* else, and returns without editing the theme store.
C21_HandlerRefusesBeforeEdit ==
    /\ ThemeEditUngranted =>
          /\ Refusals = {}
          /\ last.spawned = "theme"
    /\ ThemeEditRefused =>
          /\ Len(last.sent) = 1
          /\ Refusals = {1}
          /\ last.own = <<>>
          /\ last.sent[1].to = User_display_name(last.user)
          /\ ~last.edited
          /\ last.ret = "respond"

\* the handler refused `edit foo spotify:track:1` of a subscriber, an edit
\* that a moderator has made before
C21_Witness ==
    /\ ThemeEditRefused
    /\ last.user.login = Bob
    /\ last.message = <<"edit", "foo", "spotify:track:1">>
    /\ themes = [n \in {"foo"} |-> "spotify:track:1"]

\* the dispatch of `!theme edit foo bar` of a subscriber spawned the handler
C21_WitnessSpawned ==
    /\ ThemeEditUngranted
    /\ last.user.login = Bob
    /\ last.spawned = "theme"

\* the last step ran the task that delivers a message to the hooks
Delivered == last.ev = "hooks"

\* C22 as stated: every message is delivered to every hook that was
\* registered when the message entered the pipeline, and to no other.
C22_DeliveredToHooksOfEntry ==
    Delivered => last.peeked = last.registered

\* a chat line that entered while the hook of a poll was registered reached
\* no hook: the poll was closed before the task of the line ran
C22_Witness ==
    /\ Delivered
    /\ last.user.login = Amy
    /\ last.text = <<"yes">>
    /\ last.registered = {1}
    /\ last.peeked = {}

\* the line that started a poll was delivered to the hook of that poll, which
\* was inserted after the line had entered
C22_WitnessLate ==
    /\ Delivered
    /\ last.text = <<"!a", "run", "q">>
    /\ last.registered = {}
    /\ last.peeked = {1}

\* the last step sent the farewell text
Farewell == \E i \in 1..Len(last.sent) : last.sent[i] = Privmsg("leave message")

\* C23 as stated: the farewell is sent when the leave timer elapses and not
\* before, that is not by the step that arms the timer.
C23_FarewellWhenTimerElapses ==
    /\ last.ev = "provider_update" => ~Farewell
    /\ last.ev = "leave" => Farewell

\* C23: the step that handles a dependency-changed notification arms the
\* leave timer, leaves the loop and sends the farewell at once, before the
\* timer elapses; no other step sends it and the loop is not entered again,
\* so it is sent once; the session then ends with Ok when the timer elapses,
\* or with the error of the outgoing task when that task ends first.
C23_FarewellWhenArmed ==
    /\ [](/\ last.ev = "provider_update" =>
                (last.sent = <<Privmsg("leave message")>> /\ leave = "armed")
          /\ Farewell => last.ev = "provider_update"
          /\ (last.ev = "leave") =>
                (~Farewell /\ pc = "done" /\ result = "Ok" /\ leave = "armed"))
    /\ [][/\ (last'.ev = "provider_update" /\ last' # last) =>
                (pc = "select" /\ leave = "empty" /\ pc' = "drain")
          /\ pc = "drain" =>
                \/ pc' = "drain" /\ last'.ev = "task"
                \/ pc' = "done" /\ result' = "Ok" /\ last'.ev = "leave"
                \/ pc' = "done" /\ result' = "Err" /\ last'.ev = "outgoing"
          /\ pc = "done" => pc' = "done"]_vars

\* the farewell was sent by the step that armed the timer, and the session
\* is draining: the timer has not elapsed
C23_Witness ==
    /\ last.ev = "provider_update"
    /\ Farewell
    /\ leave = "armed"
    /\ pc = "drain"

\* the timer elapsed afterwards and the session ended with Ok
C23_WitnessEnd ==
    /\ last.ev = "leave"
    /\ leave = "armed"
    /\ pc = "done"
    /\ result = "Ok"

\* C24 as stated: a session that ended with Ok went through a graceful
\* leave: the leave timer was armed by a dependency-changed notification
\* (whose step sends the farewell) and the session ended when it elapsed.
C24_OkOnlyThroughLeave ==
    (pc = "done" /\ result = "Ok") => (leave = "armed" /\ last.ev \in {"leave", "task"})

\* a component future failed and the session ended with Ok, the leave timer
\* never armed and no farewell sent
C24_Witness ==
    /\ pc = "done"
    /\ result = "Ok"
    /\ last.ev = "future"
    /\ last.ret = "error"
    /\ last.sent = <<>>
    /\ leave = "empty"

\* the roles of the principal of the last message
RolesOfLast == User_roles(last.user, moderators, vips)

\* C25 as stated: for a chat message the principal is Streamer iff its login
\* is the login of the channel owner, Moderator iff the login is in the
\* moderator set, Vip iff it is in the VIP set, Subscriber iff it is the
\* owner or the subscription lookup says so; every principal, that of an
\* injected command included, has the role Everyone.
C25_RolesDerived ==
    /\ last.ev = "privmsg" =>
          /\ "Streamer" \in RolesOfLast <=> last.user.login = StreamerLogin
          /\ "Moderator" \in RolesOfLast <=> last.user.login \in moderators
          /\ "Vip" \in RolesOfLast <=> last.user.login \in vips
          /\ "Subscriber" \in RolesOfLast <=>
                (last.user.login = StreamerLogin \/ last.user.login \in Subscribers)
    /\ last.ev \in {"privmsg", "raw"} => "Everyone" \in RolesOfLast

\* a chat line of the channel owner was handled, and its principal is
\* neither Streamer nor Subscriber
C25_Witness ==
    /\ last.ev = "privmsg"
    /\ last.user.login = StreamerLogin
    /\ RolesOfLast = {"Everyone"}

\* an injected command was handled, and its principal lacks Everyone
C25_WitnessInjected ==
    /\ last.ev = "raw"
    /\ RolesOfLast = {"Streamer", "Moderator", "Subscriber", "Vip"}

\* the moderation check ran on a message
ModerationRan == unit.fn = "moderate"

\* the words of the message that match the denylist
BadWordsOf(message) == {i \in 1..Len(message) : Tester_test(message[i]) # None}

\* the message holds a URL whose host is not in the whitelist
BadLinkIn(message, hosts) ==
    \E i \in 1..Len(message) :
        Url_host(message[i]) # None /\ Url_host(message[i]) \notin hosts

\* the message is marked for deletion, as the claim describes it
Marked ==
    \/ unit.bad_words_enabled /\ BadWordsOf(unit.message) # {}
    \/ /\ unit.url_whitelist_enabled
       /\ ~Auth_test_any("ChatBypassUrlWhitelist",
                         User_roles(unit.user, unit.moderators, unit.vips))
       /\ BadLinkIn(unit.message, unit.whitelisted_hosts)

\* C26: for a sender who is not a moderator, a delete request is issued iff
\* the message is marked (a bad word with the filter enabled, or a link to a
\* host outside the whitelist with the enforcement enabled and the sender
\* lacking the bypass scope) and the line carries an id; an explanation is
\* sent only when the bad-word filter is enabled and the first matching word
\* carries one, never for a link; for a moderator nothing is sent or deleted.
C26_MarkedForDeletion ==
    ModerationRan =>
        IF User_is_moderator(unit.user, unit.moderators)
        THEN ~unit.result.deleted /\ unit.result.sent = <<>>
        ELSE /\ unit.result.deleted <=> (Marked /\ unit.user.id)
             /\ unit.result.sent # <<>> =>
                   /\ unit.bad_words_enabled
                   /\ BadWordsOf(unit.message) # {}
                   /\ \E i \in BadWordsOf(unit.message) :
                         /\ \A j \in BadWordsOf(unit.message) : i <= j
                         /\ Tester_test(unit.message[i]) = "why"
                   /\ unit.result.sent = <<Privmsg("bad word explanation")>>
             /\ (unit.bad_words_enabled /\ BadWordsOf(unit.message) # {}
                   /\ \A i \in BadWordsOf(unit.message) :
                         Tester_test(unit.message[i]) = "why")
                   => unit.result.sent # <<>>

\* a link to a host outside the whitelist, of a sender without the bypass
\* scope, on a line with an id: a delete request and no explanation
C26_Witness ==
    /\ ModerationRan
    /\ ~User_is_moderator(unit.user, unit.moderators)
    /\ ~unit.bad_words_enabled
    /\ unit.url_whitelist_enabled
    /\ unit.message = <<"http://bad.tv">>
    /\ unit.user.id
    /\ unit.result.deleted
    /\ unit.result.sent = <<>>

\* a marked message on a line without an id: the explanation of the bad
\* word is sent and no delete request is issued
C26_WitnessNoId ==
    /\ ModerationRan
    /\ ~unit.user.id
    /\ unit.user.principal = "User"
    /\ Marked
    /\ unit.result.sent = <<Privmsg("bad word explanation")>>
    /\ ~unit.result.deleted

\* a VIP holds the bypass scope: the link is left alone
C26_WitnessBypass ==
    /\ ModerationRan
    /\ unit.user.login = Bob
    /\ Bob \in unit.vips
    /\ unit.url_whitelist_enabled
    /\ BadLinkIn(unit.message, unit.whitelisted_hosts)
    /\ ~Marked
    /\ ~unit.result.deleted

\* the values a notice can give a set: empty, or the list of a notice
CompleteValues == {{}} \cup {parse_room_members(m) : m \in NoticeMessages}

\* the last step handled a notice about the moderators, about the VIPs
ModeratorNotice == last.ev = "notice" /\ last.ret \in {"no_mods", "room_mods"}
VipNotice == last.ev = "notice" /\ last.ret \in {"no_vips", "vips_success"}

\* C27: after a moderator notice the moderator set is what the notice says
\* (empty after no_mods, the parsed list after room_mods), likewise the VIP
\* set after a VIP notice; no other step changes either set, so a moderator
\* notice never changes the VIP set nor a VIP notice the moderator set, and
\* each set is that of its most recent notice; a set is replaced as a whole,
\* so a spawned handler reads one of these values.
C27_SetsFollowNotices ==
    /\ [](/\ (last.ev = "notice" /\ last.ret = "no_mods") => moderators = {}
          /\ (last.ev = "notice" /\ last.ret = "room_mods") =>
                moderators = parse_room_members(last.message)
          /\ (last.ev = "notice" /\ last.ret = "no_vips") => vips = {}
          /\ (last.ev = "notice" /\ last.ret = "vips_success") =>
                vips = parse_room_members(last.message)
          /\ moderators \in CompleteValues
          /\ vips \in CompleteValues)
    /\ [][/\ moderators' # moderators => ModeratorNotice'
          /\ vips' # vips => VipNotice'
          /\ TaskEnds => UNCHANGED <<moderators, vips>>]_vars

\* the moderators were listed, then a notice cleared the VIPs that had been
\* listed, and the moderators are still those of their notice
C27_Witness ==
    /\ last.ev = "notice"
    /\ last.ret = "no_vips"
    /\ moderators = {Amy}
    /\ vips = {}

\* a handler ran for a sender whom the latest notice lists as a moderator
C27_WitnessRead ==
    /\ last.ev = "task"
    /\ last.user.login = Amy
    /\ Amy \in moderators
    /\ Bob \in vips
    /\ last.edited

\* the last step asked for the list of the moderators or of the VIPs
ListRequest ==
    \E i \in 1..Len(last.sent) : last.sent[i] \in {Privmsg("/mods"), Privmsg("/vips")}

\* C28 as stated: the two lists are asked for when the acknowledgment of
\* twitch.tv/commands is handled, and no step asks for a list before that
\* acknowledgment was handled, the periodic refresh included.
C28_ListRequestsAfterAck ==
    /\ (last.ev = "cap_ack" /\ last.ret = "twitch.tv/commands") =>
          last.sent = <<Privmsg("/mods"), Privmsg("/vips")>>
    /\ ListRequest => "twitch.tv/commands" \in caps.acked

\* the refresh asked for the two lists before any capability was requested
C28_Witness ==
    /\ last.ev = "refresh_mods"
    /\ ListRequest
    /\ ~caps.requested
    /\ caps.acked = {}

\* the acknowledgment of twitch.tv/commands was handled and the two lists
\* were asked for
C28_WitnessAck ==
    /\ last.ev = "cap_ack"
    /\ last.ret = "twitch.tv/commands"
    /\ last.sent = <<Privmsg("/mods"), Privmsg("/vips")>>
    /\ "twitch.tv/commands" \in caps.acked

\* the last step sent the greeting
Greeting == \E i \in 1..Len(last.sent) : last.sent[i] = Privmsg("join message")

\* the two capabilities the join task requests
Capabilities == {"twitch.tv/tags", "twitch.tv/commands"}

\* C29 as stated: the greeting is sent only once both capability requests
\* were sent and acknowledged.
C29_GreetingAfterAcks == Greeting => caps.acked = Capabilities

\* C29: the greeting is sent by the join task only, right after the two
\* capability requests and before any of them was acknowledged, and exactly
\* when a greeting is configured; the join task runs at most once in a
\* session; while it is pending the loop can take its other branches.
C29_GreetingAfterRequests ==
    /\ [](/\ Greeting => (last.ev = "join" /\ last.ret # None)
          /\ last.ev = "join" =>
                /\ caps.requested
                /\ caps.acked = {}
                /\ last.sent =
                      <<Send("CAP REQ twitch.tv/tags"), Send("CAP REQ twitch.tv/commands")>>
                         \o (IF last.ret # None THEN <<Privmsg(last.ret)>> ELSE <<>>)
          /\ caps.acked # {} => join_task = "done"
          /\ (pc = "select" /\ join_task = "pending") => ENABLED HandlePing)
    /\ [][/\ (last'.ev = "join" /\ last' # last) =>
                (join_task = "pending" /\ join_task' = "done")
          /\ join_task = "done" => join_task' = "done"]_vars

\* the greeting was sent, after the requests, no capability acknowledged
C29_Witness ==
    /\ Greeting
    /\ last.ev = "join"
    /\ caps.requested
    /\ caps.acked = {}

\* a line of the peer was handled while the join task was pending
C29_WitnessPending ==
    /\ join_task = "pending"
    /\ last.ev = "PING"
    /\ pc = "select"

\* C30: the pong-timeout fuse is armed exactly while a probe was sent and no
\* PONG was handled since; it holds one deadline or none; only the step that
\* sends a probe arms it and only the step that handles a PONG clears it.
C30_FuseFollowsProbe ==
    /\ [](/\ pong_timeout \in {"empty", "armed"}
          /\ pong_timeout = "armed" <=> probe = "sent"
          /\ last.ev = "send_ping" => pong_timeout = "armed"
          /\ last.ev = "PONG" => pong_timeout = "empty")
    /\ [][/\ (pong_timeout = "empty" /\ pong_timeout' = "armed") =>
                (last'.ev = "send_ping" /\ last'.sent = <<Send("PING")>>)
          /\ (pong_timeout = "armed" /\ pong_timeout' = "empty") => last'.ev = "PONG"]_vars

\* a probe was answered, which cleared the fuse
C30_Witness ==
    /\ last.ev = "PONG"
    /\ probe = "answered"
    /\ pong_timeout = "empty"
    /\ pc = "select"

\* a probe is out and the fuse is armed
C30_WitnessArmed ==
    /\ last.ev = "send_ping"
    /\ probe = "sent"
    /\ pong_timeout = "armed"

(***************************************************************************)
(* C31..C40                                                                *)
(***************************************************************************)
\* the steps that handle a line of the peer, the authentication-failure
\* notice apart; "script_return" ends the handling of a chat line that
\* called a script
InboundLines ==
    {"privmsg", "privmsg_no_source", "cap_ack", "PING", "PONG", "notice", "line",
     "script_return"}

\* C31: no line of the peer other than an authentication-failure notice ends
\* the session: after an unrecognized line, and after a line whose handling
\* returned an error (which is logged), the loop is selecting again and no
\* shutdown was asked for; a session that ended with "handler forcibly shut
\* down" ended on an authentication-failure notice.
C31_LinesNeverEndSession ==
    /\ [](/\ last.ev \in InboundLines =>
                /\ pc \in {"select", "script"}
                /\ result = "none"
                /\ ~handler_shutdown
          /\ (last.ev \in InboundLines /\ last.logged # None) => pc = "select")
    /\ [][(pc # "done" /\ pc' = "done" /\ error' = "handler forcibly shut down") =>
             (last'.ev = "notice_auth" /\ last'.refreshed)]_vars

\* rendering the response of a table-driven command failed: the error was
\* logged and the loop selects again
C31_Witness ==
    /\ last.ev = "privmsg"
    /\ last.table # None
    /\ last.sent = <<>>
    /\ last.logged = "Failed to handle message"
    /\ pc = "select"
    /\ result = "none"

\* an unrecognized line was handled
C31_WitnessUnrecognized ==
    /\ last.ev = "line"
    /\ last.ret = "other"
    /\ last.logged = None
    /\ pc = "select"

\* C32: handling a PING of the peer sends exactly one reply, a PONG with the
\* arguments of that PING, in the same step; the step leaves the
\* pong-timeout fuse and the history of the probes, the moderator and VIP
\* sets and every snapshot as they were, and the loop selects again.
C32_PingAnsweredOnce ==
    [][(last' # last /\ last'.ev = "PING") =>
          /\ Len(last'.sent) = 1
          /\ last'.sent[1].text = "PONG"
          /\ last'.sent[1].arg = last'.message
          /\ last'.message \in PingArguments
          /\ last'.logged = None
          /\ pc' = "select"
          /\ UNCHANGED <<pong_timeout, probe, moderators, vips, commands,
                         commands_stream, aliases, whitelisted_hosts, scripts,
                         handler_shutdown, leave>>]_vars

\* a PING with two arguments was answered while the bot's own probe was
\* out: the fuse stays armed
C32_Witness ==
    /\ last.ev = "PING"
    /\ last.message = <<"a.tv", "b.tv">>
    /\ last.sent = ping_reply("a.tv", "b.tv")
    /\ probe = "sent"
    /\ pong_timeout = "armed"
    /\ pc = "select"

\* a step that processed a message whose alias expansion ran into a cycle
CycleAborted == last' # last /\ last'.ev \in {"privmsg", "raw"} /\ last'.outcome = "cycle"

\* what a step that processes a message leaves alone whatever the message
SessionUnaffected ==
    /\ pc' = "select" /\ result' = "none" /\ error' = None
    /\ UNCHANGED <<leave, handler_shutdown, pong_timeout, probe, join_task, commands,
                   commands_stream, aliases, moderators, vips, whitelisted_hosts,
                   scripts, themes>>

\* C33 as stated: when the alias expansion of a message aborts on a cycle,
\* the cycle report is the only effect of that message: nothing else is sent,
\* no table-driven command fires, no command is dispatched, nothing is
\* spawned, no registered hook is handed the message and the session is as
\* it was.
C33_ReportIsOnlyEffect ==
    [][CycleAborted =>
          /\ last'.sent = <<CycleReport(last'.user, last'.path)>>
          /\ last'.table = None /\ ~last'.incremented
          /\ last'.resolved = None /\ last'.spawned = None /\ last'.called = None
          /\ SessionUnaffected
          /\ UNCHANGED <<tasks, script_call>>
          /\ hooks.registry # {} => UNCHANGED hooks]_vars

\* C33 as amended: the message was handed to the message hooks as it was
\* received, which process_message does before it expands aliases; of the
\* rest of the pipeline the cycle report to the author is the only effect:
\* no table-driven command fires and no counter is incremented, no command
\* is dispatched, no handler or script runs, the message is not checked for
\* deletion, no error is logged and the session goes on. Every message is
\* expanded from an empty path and seen-set.
C33_CycleAbortsPipeline ==
    /\ [][CycleAborted =>
             /\ last'.sent = <<CycleReport(last'.user, last'.path)>>
             /\ last'.table = None /\ ~last'.incremented
             /\ last'.resolved = None /\ last'.spawned = None /\ last'.called = None
             /\ ~last'.ping /\ ~last'.deleted /\ last'.logged = None
             /\ SessionUnaffected
             /\ UNCHANGED <<tasks, script_call>>
             /\ hooks.enabled =>
                   /\ hooks'.pending =
                         Append(hooks.pending,
                                Delivery(last'.user, last'.text, hooks.registry))
                   /\ hooks'.registry = hooks.registry]_vars
    /\ [][(last' # last /\ last'.ev \in {"privmsg", "raw"}) =>
             LET x == expand_aliases(aliases.map, last'.text, {}, <<>>, ExpandFuel)
             IN last'.path = x.path /\ last'.outcome = x.outcome]_vars

\* a line that ran into the cycle !a -> !b -> !a was reported to its author
\* and is waiting to be peeked by the hook of a running poll
C33_Witness ==
    /\ last.ev = "privmsg"
    /\ last.outcome = "cycle"
    /\ last.text = <<"!a", "yes">>
    /\ last.sent = <<CycleReport(last.user, <<"!a", "!b", "!a">>)>>
    /\ hooks.registry # {}
    /\ \E i \in 1..Len(hooks.pending) : hooks.pending[i].text = <<"!a", "yes">>
    /\ pc = "select"

\* after a line that ran into a cycle, a line that matches no alias was
\* answered from the command table
C33_WitnessNext ==
    /\ last.ev = "privmsg"
    /\ last.outcome = "done"
    /\ last.path = <<>>
    /\ last.table = "!lurk"
    /\ \E i \in 1..Len(hooks.pending) : hooks.pending[i].text = <<"!a", "yes">>

\* the ways of giving n items, in order, to k lines: c[i] is the number of
\* items given to the lines up to the i-th
Cuts(n, k) ==
    {c \in [0..k -> 0..n] : c[0] = 0 /\ c[k] = n /\ \A i \in 1..k : c[i - 1] <= c[i]}

\* the line holds these items: it is their join, or it is the single item cut
\* to a prefix and followed by the ellipsis
Holds(l, group, sep) ==
    IF l.forced
    THEN Len(group) = 1 /\ l.item = group[1] /\ l.line = slice_to(l.item, l.index) \o TAIL
    ELSE group # <<>> /\ l.line = join(group, sep)

\* the call returned its lines without a failure
Returned == Partitioned /\ \A i \in 1..Len(unit.lines) : ~unit.lines[i].panic

\* C34: partition_response loses no item: the items can be given to the
\* lines in input order so that every line holds the items given to it,
\* whole and joined by the separator or as one item cut to a prefix; when no
\* line comes out there was nothing to show.
C34_NoItemLost ==
    Returned =>
        IF unit.lines = <<>>
        THEN join(unit.items, unit.sep) = <<>>
        ELSE \E c \in Cuts(Len(unit.items), Len(unit.lines)) :
                \A i \in 1..Len(unit.lines) :
                   Holds(unit.lines[i], SubSeq(unit.items, c[i - 1] + 1, c[i]), unit.sep)

\* two items of three bytes at width five: the first comes out as the only
\* line, the second is in no line
C34_Witness ==
    /\ Returned
    /\ unit.width = 5
    /\ unit.items = <<<<"a", "a", "a">>, <<"a", "a", "a">>>>
    /\ Len(unit.lines) = 1
    /\ unit.lines[1].line = <<"a", "a", "a">>
    /\ ~unit.lines[1].forced

C35_WitnessPanic ==
    /\ Partitioned
    /\ unit.width = 2
    /\ unit.items = <<<<"a", "a", "a">>>>
    /\ Len(unit.lines) = 1
    /\ unit.lines[1].panic

\* from the width of the ellipsis on, every line is within the width
C35_WithinWidthFromThree ==
    (Partitioned /\ unit.width >= Len(TAIL)) =>
        \A i \in 1..Len(unit.lines) :
           /\ ~unit.lines[i].panic
           /\ String_len(unit.lines[i].line) <= unit.width

\* the sum of a map of counts
RECURSIVE SumOf(_, _)
SumOf(f, keys) ==
    IF keys = {} THEN 0
    ELSE LET k == CHOOSE k \in keys : TRUE
         IN f[k] + SumOf(f, keys \ {k})

\* the sum of the tallies that close reported
Reported == SumOf([i \in DOMAIN unit.results |-> unit.results[i].votes], DOMAIN unit.results)

\* C36: in a poll every chat user is counted at most once and an injected
\* principal never; a vote is recorded under the option it matches, whatever
\* its case; and once the poll is closed the tallies reported add up to
\* the number of users recorded as having voted.
C36_TalliesAddUp ==
    unit.fn = "poll" =>
        /\ NoLogin \notin unit.voted
        /\ SumOf(unit.votes, DOMAIN unit.votes) = Cardinality(unit.voted)
        /\ DOMAIN unit.votes \subseteq DOMAIN unit.options
        /\ unit.closed => Reported = Cardinality(unit.voted)

\* one user voted YES in a poll with the options yes and no: the poll was
\* closed with no vote reported
C36_Witness ==
    /\ unit.fn = "poll"
    /\ unit.closed
    /\ DOMAIN unit.options = {"yes", "no"}
    /\ unit.voted = {Bob}
    /\ unit.votes = ("YES" :> 1)
    /\ Reported = 0

\* every chat user is counted at most once and an injected principal never;
\* the tallies reported never exceed the number of users who voted
C36_CountedOnce ==
    unit.fn = "poll" =>
        /\ NoLogin \notin unit.voted
        /\ SumOf(unit.votes, DOMAIN unit.votes) = Cardinality(unit.voted)
        /\ \A w \in DOMAIN unit.votes : Lower(w) \in DOMAIN unit.options
        /\ unit.closed => Reported <= Cardinality(unit.voted)

\* the promotions of the database that are not disabled
EnabledPromotions(db) == [k \in {k \in DOMAIN db : ~db[k].disabled} |-> db[k]]

\* C37: whatever calls of Promotions::edit were made, the map in memory holds
\* exactly the promotions of the database that are not disabled, with their
\* values; the promotion of an edit that created it is in both.
C37_MemoryMatchesDatabase ==
    (unit.fn = "promotions" /\ unit.call \in {"load", "edit"}) =>
        unit.inner = EnabledPromotions(unit.db)

\* an edit created the promotion `ad`: it is in the database, not disabled,
\* and the map in memory does not hold it
C37_Witness ==
    /\ unit.fn = "promotions"
    /\ unit.call = "edit"
    /\ unit.ret = "Ok"
    /\ unit.key = Key_new(Zoe, "ad")
    /\ unit.before = EmptyMap
    /\ unit.key \in DOMAIN unit.db
    /\ ~unit.db[unit.key].disabled
    /\ unit.key \notin DOMAIN unit.inner

\* the last call was Promotions::bump_promoted_at
Bumped == unit.fn = "promotions" /\ unit.call = "bump"

\* C38: bump_promoted_at returns Missing exactly when the map in memory does
\* not hold the promotion; when it returns Missing or a Database error the
\* map in memory is as it was before the call; when it succeeds the map
\* differs only in the promoted_at of that promotion, which is the time of
\* the call.
C38_BumpKeepsMapOnFailure ==
    Bumped =>
        /\ unit.ret = "Missing" <=> unit.key \notin DOMAIN unit.before
        /\ unit.ret \in {"Missing", "Database"} => unit.inner = unit.before
        /\ unit.ret = "Ok" =>
              unit.inner = [unit.before EXCEPT ![unit.key].promoted_at = unit.now]

\* the database update failed: the promotion that was in memory before the
\* call is not there after it, and the database still holds it
C38_Witness ==
    /\ Bumped
    /\ unit.ret = "Database"
    /\ unit.key \in DOMAIN unit.before
    /\ unit.key \notin DOMAIN unit.inner
    /\ unit.key \in DOMAIN unit.db
    /\ ~unit.db[unit.key].disabled

\* the parts of C38 that hold: Missing exactly when the promotion is not in
\* memory, and then nothing changes; on success only its promoted_at does
C38_MissingAndSuccess ==
    Bumped =>
        /\ unit.ret = "Missing" <=> unit.key \notin DOMAIN unit.before
        /\ unit.ret = "Missing" => unit.inner = unit.before
        /\ unit.ret = "Ok" =>
              unit.inner = [unit.before EXCEPT ![unit.key].promoted_at = unit.now]

\* the map in memory holds exactly the rows that are not disabled, with
\* their text
AliasesAgree(inner, db) == inner = [k \in {k \in DOMAIN db : ~db[k].disabled} |-> db[k]]

\* C39: whatever calls of Aliases::edit, delete and rename were made, the
\* keys in memory are exactly the rows of the database that are not
\* disabled, with the same text; after a rename that succeeded the row is
\* kept under its channel and the new name; a rename refused with Conflict
\* or Missing changed neither.
C39_MemoryAgreesWithDatabase ==
    unit.fn = "aliases" =>
        /\ AliasesAgree(unit.inner, unit.db)
        /\ (unit.call = "rename" /\ unit.ret = "Ok") =>
              (unit.to \in DOMAIN unit.db /\ unit.db[unit.to] = unit.db_before[unit.key])
        /\ (unit.call = "rename" /\ unit.ret \in {"Conflict", "Missing"}) =>
              (unit.inner = unit.before /\ unit.db = unit.db_before)

\* !a was renamed to !b: memory holds it as !b, and the row of the database
\* is named after the channel
C39_Witness ==
    /\ unit.fn = "aliases"
    /\ unit.call = "rename"
    /\ unit.ret = "Ok"
    /\ unit.key = <<AliasChannel, "!a">>
    /\ unit.to = <<AliasChannel, "!b">>
    /\ AliasesAgree(unit.before, unit.db_before)
    /\ unit.to \in DOMAIN unit.inner
    /\ unit.to \notin DOMAIN unit.db
    /\ <<AliasChannel, AliasChannel>> \in DOMAIN unit.db

\* the same rename on a database that rejects the statement: memory holds
\* the alias as !b and the row is still named !a
C39_WitnessRejected ==
    /\ unit.fn = "aliases"
    /\ unit.call = "rename"
    /\ unit.ret = "Ok"
    /\ unit.key = <<AliasChannel, "!a">>
    /\ unit.to = <<AliasChannel, "!b">>
    /\ AliasesAgree(unit.before, unit.db_before)
    /\ unit.db = unit.db_before
    /\ unit.to \in DOMAIN unit.inner

\* the parts of C39 that hold: edit and delete keep the agreement of memory
\* and database, and a rename that is refused changes neither
C39_EditAndDeleteAgree ==
    /\ [][(unit'.fn = "aliases" /\ unit'.call \in {"load", "edit", "delete"}
             /\ (unit.fn = "aliases" => AliasesAgree(unit.inner, unit.db)))
            => AliasesAgree(unit'.inner, unit'.db)]_vars
    /\ []((unit.fn = "aliases" /\ unit.call = "rename"
             /\ unit.ret \in {"Conflict", "Missing"})
            => (unit.inner = unit.before /\ unit.db = unit.db_before))

\* calls were made on the theme and every one of them has returned
AllCompleted ==
    /\ unit.fn = "themes"
    /\ unit.calls # <<>>
    /\ \A i \in DOMAIN unit.calls : unit.calls[i].pc = "done"

\* the theme in memory has the track, start and end of its row
CacheAgrees ==
    unit.inner # <<>> =>
        /\ unit.db # <<>>
        /\ unit.inner[1].track_id = unit.db[1].track_id
        /\ unit.inner[1].start = unit.db[1].start
        /\ unit.inner[1].end = unit.db[1].end

\* the calls of edit_duration among the calls made
DurationCalls == {i \in DOMAIN unit.calls : unit.calls[i].kind = "edit_duration"}

\* C40: however calls of Themes::edit and Themes::edit_duration on one theme
\* interleave, once all of them have returned the theme in memory has the
\* track, start and end of its row in the database.
C40_CacheAgreesWhenQuiescent == AllCompleted => CacheAgrees

\* a theme that did not exist: a call of edit and a call of edit_duration
\* have both returned Ok, the row has the start 0 it was inserted with and
\* memory the start of edit_duration
C40_Witness ==
    /\ AllCompleted
    /\ ~unit.existed
    /\ Len(unit.calls) = 2
    /\ Cardinality(DurationCalls) = 1
    /\ \A i \in DOMAIN unit.calls : unit.calls[i].ret = "Ok"
    /\ unit.inner # <<>> /\ unit.db # <<>>
    /\ unit.inner[1].start = 1
    /\ unit.db[1].start = 0

\* two calls of edit_duration on a theme that exists have returned Ok: the
\* database holds the start of the one that reached it last, memory the
\* start of the other
C40_WitnessDurations ==
    /\ AllCompleted
    /\ unit.existed
    /\ Len(unit.calls) = 2
    /\ \A i \in DOMAIN unit.calls :
          unit.calls[i].kind = "edit_duration" /\ unit.calls[i].ret = "Ok"
    /\ unit.inner # <<>> /\ unit.db # <<>>
    /\ unit.inner[1].start = 1
    /\ unit.db[1].start = 2

\* the part of C40 that holds: on a theme that existed when the map was
\* loaded, calls of Themes::edit among themselves and with one call of
\* edit_duration leave memory and database in agreement
C40_AgreesWithOneDuration ==
    (AllCompleted /\ unit.existed /\ Cardinality(DurationCalls) <= 1) => CacheAgrees

====
